---- MODULE Spec2Model ----
(***************************************************************************)
(* Model of the pipeline and deployment orchestration core of the          *)
(* ai-workstation repository:                                              *)
(*   - DeploymentManager   (deepseek_javascript_20250923_126c7d.js)        *)
(*   - WorkflowOrchestrator (deepseek_typescript_20250923_685eb8.ts and    *)
(*     its earlier version in unnamed/part_008)                            *)
(*   - TemplateManager     (deepseek_typescript_20250923_458741.ts)        *)
(*   - SecurityScanner and the main process (unnamed/part_007, part_006)   *)
(*   - the renderer's AppContext (deepseek_typescript_20250923_c2115c.ts)  *)
(* The specifications are defined over the same variables:                 *)
(*   SpecDM   direct calls of the three deployment flows on a manager      *)
(*            whose constructor started an un-awaited loadHistory;         *)
(*   SpecRing a long scripted run of recorded deployments from an empty    *)
(*            history (exercises the 100-entry history bound);             *)
(*   Spec     one orchestrator invocation (runFullPipeline or              *)
(*            runCompleteWorkflow) including the deployment stage;         *)
(*   SpecSeq  the same invocation at the grain of child processes, and     *)
(*            SpecSeqLive, the same under fair scheduling;                 *)
(*   SpecInject runCompleteWorkflow with the template injections carried   *)
(*            out by the TemplateManager;                                  *)
(*   SpecTwo  two DeploymentManager instances over one history file;       *)
(*   SpecTM   injectTemplate calls on a TemplateManager;                   *)
(*   SpecCatalog the manager's catalog under load and createTemplate;      *)
(*   SpecScan calls of SecurityScanner.scanProject;                        *)
(*   SpecCmd  the events of one executeCommand call;                       *)
(*   SpecReport calls of generateWorkflowReport;                           *)
(*   SpecUi   runWorkflow calls of the renderer, and SpecUiLive, the same  *)
(*            under fair scheduling.                                       *)
(***************************************************************************)
EXTENDS Integers, Sequences, FiniteSets, TLC

VARIABLES
    deploymentHistory,  \* DeploymentManager.deploymentHistory (most recent first)
    document,           \* the backing file data/deployment-history.json
    loadPending,        \* the constructor's un-awaited loadHistory() has not assigned yet
    recorded,           \* number of saveDeploymentHistory calls so far (logical clock)
    nCalls,             \* number of deployTo* calls that have returned
    lastResult,         \* DeploymentResult returned by the latest deployTo* call
    lastLaunched,       \* commands spawned by the latest deployTo* call, in order
    written,            \* timestamps of the entries that reached the backing file
    peerHistory,        \* deploymentHistory of the second DeploymentManager instance
    peerLoadPending,    \* the second instance's un-awaited loadHistory has not assigned yet
    peerCalls,          \* number of deployTo* calls of the second instance that returned
    mode,               \* orchestrator entry point in progress: idle / pipeline / workflow
    pc,                 \* position of the orchestrator invocation
    config,             \* the WorkflowConfig of the invocation
    idx,                \* loop index: pipeline step / template id being processed
    steps,              \* results / results.steps: the StepResult list
    wfSuccess,          \* results.success
    wfDeployment,       \* results.deployment
    launched,           \* stages launched by the invocation, in order
    prerequisites,      \* result of checkPrerequisites: nodejs / npm / git present
    alive,              \* child processes spawned by the orchestrator and not yet closed
    awaiting,           \* the child whose close the invocation is suspended on
    templates,          \* TemplateManager.templates: ids in the in-memory catalog
    catalogFile,        \* templates.json as createTemplate left it
    request,            \* arguments and environment of the latest injectTemplate call
    validation,         \* result of the latest validateVariables call
    injection,          \* InjectionResult returned by the latest injectTemplate call
    tree,               \* the target directory: what exists at each path
    manifest,           \* the target's package.json
    tmCalls,            \* number of injectTemplate calls that have returned
    cmdEvents,          \* events the child of one executeCommand call has emitted
    cmdOutput,          \* executeCommand: chunks accumulated from stdout
    cmdError,           \* executeCommand: chunks accumulated from stderr
    cmdPromise,         \* executeCommand: the promise it returned
    rptInput,           \* argument of generateWorkflowReport
    rptOutput,          \* what generateWorkflowReport did with it
    scanRequest,        \* what the latest scanProject call found on disk and from npm audit
    scanOutcome,        \* what the latest scanProject call did
    scanStep,           \* the StepResult runSecurityScan made of it
    workflowStatus,     \* AppContext state.workflowStatus
    uiPc,               \* position of the renderer's runWorkflow call
    uiRuns              \* number of runWorkflow calls made

dmVars == <<deploymentHistory, document, loadPending, recorded, nCalls,
            lastResult, lastLaunched, written>>
peerVars == <<peerHistory, peerLoadPending, peerCalls>>
procVars == <<alive, awaiting>>
tmVars == <<templates, catalogFile, request, validation, injection, tree, manifest, tmCalls>>
cmdVars == <<cmdEvents, cmdOutput, cmdError, cmdPromise>>
rptVars == <<rptInput, rptOutput>>
scanVars == <<scanRequest, scanOutcome, scanStep>>
uiVars == <<workflowStatus, uiPc, uiRuns>>
libVars == <<tmVars, cmdVars, rptVars, peerVars, scanVars, uiVars>>
wfVars == <<mode, pc, config, idx, steps, wfSuccess, wfDeployment, launched,
            prerequisites, alive, awaiting>>
vars == <<deploymentHistory, document, loadPending, recorded, nCalls,
          lastResult, lastLaunched, written,
          peerHistory, peerLoadPending, peerCalls,
          mode, pc, config, idx, steps, wfSuccess, wfDeployment, launched,
          prerequisites, alive, awaiting,
          templates, catalogFile, request, validation, injection, tree, manifest,
          tmCalls,
          cmdEvents, cmdOutput, cmdError, cmdPromise, rptInput, rptOutput,
          scanRequest, scanOutcome, scanStep, workflowStatus, uiPc, uiRuns>>

----------------------------------------------------------------------------
(* Bounds of the model *)

MaxCalls == 2        \* direct deployTo* calls per behaviour of SpecDM
MaxRingCalls == 150  \* recorded deployments per behaviour of SpecRing
MaxExtra == 1        \* how far the persisted document may exceed the limit

(* Program constant: the capacity of the history (js:385-386) *)
HistoryLimit == 100

Min(a, b) == IF a < b THEN a ELSE b

----------------------------------------------------------------------------
(* DeploymentManager *)

Undefined == "undefined"

NoResult == [success |-> FALSE, url |-> Undefined, deploymentId |-> Undefined,
             log |-> <<>>, timestamp |-> Undefined]

(* An entry that an earlier process run left in the backing document.  Its *)
(* timestamp is not positive; entries recorded by this run have positive   *)
(* timestamps 1, 2, ... (new Date() is monotone).                          *)
PersistedEntry(i) ==
    [projectId |-> "unknown-project", target |-> "netlify",
     result |-> [success |-> TRUE, url |-> "url", deploymentId |-> "id",
                 log |-> <<"Starting Netlify deployment">>, timestamp |-> "Date"],
     timestamp |-> 1 - i]

PersistedHistory(len) == [i \in 1..len |-> PersistedEntry(i)]

NoDocument == [exists |-> FALSE, valid |-> FALSE, history |-> <<>>]

DocLens == {0, HistoryLimit - 1, HistoryLimit} \cup
           (HistoryLimit + 1 .. HistoryLimit + MaxExtra)

InitialDocs ==
    {NoDocument, [exists |-> TRUE, valid |-> FALSE, history |-> <<>>]} \cup
    {[exists |-> TRUE, valid |-> TRUE, history |-> PersistedHistory(n)] : n \in DocLens}

(* loadHistory's map over data.history: every item is kept, in order; the  *)
(* timestamps are rebuilt with new Date(...), and a result that was        *)
(* written without a timestamp gets new Date(undefined), an Invalid Date.  *)
ReviveItem(item) ==
    [item EXCEPT !.result.timestamp =
        IF item.result.timestamp = Undefined THEN "Invalid Date" ELSE "Date"]

LoadedHistory(doc) == [i \in 1..Len(doc.history) |-> ReviveItem(doc.history[i])]

(* loadHistory: assigns only when the path exists and the JSON parses *)
LoadHistory ==
    /\ loadPending
    /\ loadPending' = FALSE
    /\ deploymentHistory' =
          IF document.exists /\ document.valid
          THEN LoadedHistory(document)
          ELSE deploymentHistory
    /\ UNCHANGED <<document, recorded, nCalls, lastResult, lastLaunched, written>>

(* saveDeploymentHistory, in-memory part: unshift, then slice(0, 100) *)
SaveKeepTail(hist, target, result, ts) ==
    LET unshifted == <<[projectId |-> "unknown-project", target |-> target,
                        result |-> result, timestamp |-> ts]>> \o hist
    IN  IF Len(unshifted) > HistoryLimit
        THEN SubSeq(unshifted, Len(unshifted) - HistoryLimit + 1, Len(unshifted))
        ELSE unshifted

saveDeploymentHistory(hist, target, result, ts) ==
    LET historyItem == [projectId |-> "unknown-project", target |-> target,
                        result |-> result, timestamp |-> ts]
        unshifted == <<historyItem>> \o hist
    IN  IF Len(unshifted) > HistoryLimit
        THEN SubSeq(unshifted, 1, HistoryLimit)
        ELSE unshifted

(* saveDeploymentHistory, file part: writeJson(historyPath, {history}) *)
WrittenDocumentMerging(doc, hist) ==
    [exists |-> TRUE, valid |-> TRUE,
     history |-> hist \o SelectSeq(doc.history,
                                   LAMBDA e : \A i \in 1..Len(hist) : hist[i] # e)]

WrittenDocument(doc, hist) == [exists |-> TRUE, valid |-> TRUE, history |-> hist]

(* getDeploymentHistory(projectId?) *)
getDeploymentHistory == deploymentHistory

getDeploymentHistoryOf(projectId) ==
    SelectSeq(deploymentHistory, LAMBDA item : item.projectId = projectId)

(* What the child processes of one deployToNetlify / deployToVercel call   *)
(* do: throws = spawn throws synchronously at the first command; cli,      *)
(* install, init, publish = exit code 0 of the respective command; out =   *)
(* shape of the publish command's stdout.                                  *)
OutKinds == {"json", "json-empty", "text-url", "text"}

(* Outcomes of commands that the call never launches are fixed (exit 0,   *)
(* first output shape), so that each environment is listed once.          *)
NetlifyEnvs ==
    {e \in [throws : BOOLEAN, cli : BOOLEAN, install : BOOLEAN, init : BOOLEAN,
            publish : BOOLEAN, out : OutKinds] :
        /\ e.cli => e.install
        /\ (e.throws \/ (~e.cli /\ ~e.install)) =>
              (e.init /\ e.publish /\ e.out = "json")
        /\ e.throws => e.cli}

VercelEnvs ==
    {e \in [throws : BOOLEAN, cli : BOOLEAN, install : BOOLEAN,
            publish : BOOLEAN, out : {"text-url", "text"}] :
        /\ e.cli => e.install
        /\ (e.throws \/ (~e.cli /\ ~e.install)) => (e.publish /\ e.out = "text-url")
        /\ e.throws => e.cli}

(* deployToGitHubPages: throws = repoUrl.split raises (repoUrl undefined)  *)
(* or spawn throws; build = exit code 0 of npm run build.                  *)
PagesEnvs == {e \in [throws : BOOLEAN, build : BOOLEAN] : e.throws => e.build}

(* A spawned command with its exit status (ok = exit code 0) *)
Cmd(command, ok) == [cmd |-> command, ok |-> ok]

(* The bootstrap gave up: the probe failed and the one install failed *)
BootstrapFailedIgnored(env) == FALSE

BootstrapFailed(env) == ~env.cli /\ ~env.install

(* success: deployResult.success of the publish command *)
PublishSuccessNeedsUrl(env) == env.publish /\ env.out # "text"

PublishSuccess(env) == env.publish

(* Each flow yields the returned DeploymentResult, whether                 *)
(* saveDeploymentHistory was called with it, and the commands it spawned.  *)
deployToNetlify(env) ==
    LET log0 == <<"Starting Netlify deployment">>
        log1 == IF env.cli THEN log0
                ELSE Append(log0, "Netlify CLI not found. Attempting to install...")
        log2 == IF env.init THEN log1 ELSE Append(log1, "Netlify init failed")
        log3 == Append(log2, "<publish output>")
        cmds1 == IF env.cli THEN <<Cmd("netlify --version", TRUE)>>
                 ELSE <<Cmd("netlify --version", FALSE),
                        Cmd("npm install -g netlify-cli", env.install)>>
        url == IF ~env.publish THEN Undefined
               ELSE IF env.out \in {"json", "text-url"} THEN "url" ELSE Undefined
        deploymentId == IF env.publish /\ env.out = "json" THEN "id" ELSE Undefined
    IN  IF env.throws
        THEN [result |-> [success |-> FALSE, url |-> Undefined,
                          deploymentId |-> Undefined,
                          log |-> Append(log0, "Deployment error"),
                          timestamp |-> "Date"],
              record |-> TRUE, launched |-> <<>>]
        ELSE IF BootstrapFailed(env)
        THEN [result |-> [success |-> FALSE, url |-> Undefined,
                          deploymentId |-> Undefined,
                          log |-> Append(log1, "Failed to install Netlify CLI"),
                          timestamp |-> Undefined],
              record |-> FALSE, launched |-> cmds1]
        ELSE [result |-> [success |-> PublishSuccess(env), url |-> url,
                          deploymentId |-> deploymentId,
                          log |-> log3, timestamp |-> "Date"],
              record |-> TRUE,
              launched |-> cmds1 \o <<Cmd("netlify init --force", env.init),
                                       Cmd("netlify deploy --prod --json", env.publish)>>]

deployToVercel(env) ==
    LET log0 == <<"Starting Vercel deployment">>
        log1 == IF env.cli THEN log0
                ELSE Append(log0, "Vercel CLI not found. Attempting to install...")
        log2 == Append(log1, "<publish output>")
        cmds1 == IF env.cli THEN <<Cmd("vercel --version", TRUE)>>
                 ELSE <<Cmd("vercel --version", FALSE),
                        Cmd("npm install -g vercel", env.install)>>
        url == IF env.out = "text-url" THEN "url" ELSE Undefined
    IN  IF env.throws
        THEN [result |-> [success |-> FALSE, url |-> Undefined,
                          deploymentId |-> Undefined,
                          log |-> Append(log0, "Deployment error"),
                          timestamp |-> "Date"],
              record |-> TRUE, launched |-> <<>>]
        ELSE IF BootstrapFailed(env)
        THEN [result |-> [success |-> FALSE, url |-> Undefined,
                          deploymentId |-> Undefined,
                          log |-> Append(log1, "Failed to install Vercel CLI"),
                          timestamp |-> Undefined],
              record |-> FALSE, launched |-> cmds1]
        ELSE [result |-> [success |-> PublishSuccess(env), url |-> url,
                          deploymentId |-> Undefined,
                          log |-> log2, timestamp |-> "Date"],
              record |-> TRUE,
              launched |-> cmds1 \o <<Cmd("vercel --prod --confirm", env.publish)>>]

deployToGitHubPagesUrlAlways(env) ==
    LET log0 == <<"Starting GitHub Pages deployment">>
    IN  IF env.throws
        THEN [result |-> [success |-> FALSE, url |-> Undefined,
                          deploymentId |-> Undefined,
                          log |-> Append(log0, "Deployment error"),
                          timestamp |-> "Date"],
              record |-> TRUE, launched |-> <<>>]
        ELSE [result |-> [success |-> env.build, url |-> "url",
                          deploymentId |-> Undefined,
                          log |-> Append(log0, IF env.build
                                               THEN "Build completed successfully"
                                               ELSE "Build failed"),
                          timestamp |-> "Date"],
              record |-> TRUE, launched |-> <<Cmd("npm run build", env.build)>>]

deployToGitHubPages(env) ==
    LET log0 == <<"Starting GitHub Pages deployment">>
    IN  IF env.throws
        THEN [result |-> [success |-> FALSE, url |-> Undefined,
                          deploymentId |-> Undefined,
                          log |-> Append(log0, "Deployment error"),
                          timestamp |-> "Date"],
              record |-> TRUE, launched |-> <<>>]
        ELSE IF ~env.build
        THEN [result |-> [success |-> FALSE, url |-> Undefined,
                          deploymentId |-> Undefined,
                          log |-> Append(log0, "Build failed"),
                          timestamp |-> Undefined],
              record |-> FALSE, launched |-> <<Cmd("npm run build", FALSE)>>]
        ELSE [result |-> [success |-> TRUE, url |-> "url",
                          deploymentId |-> Undefined,
                          log |-> Append(log0, "Build completed successfully"),
                          timestamp |-> "Date"],
              record |-> TRUE, launched |-> <<Cmd("npm run build", TRUE)>>]

(* Effect of one completed deployTo* call on the manager.  writeOk = the   *)
(* ensureDir/writeJson of saveDeploymentHistory did not raise (a raise is  *)
(* caught and only logged).                                                *)
FlowEffect(target, flow, writeOk) ==
    /\ nCalls' = nCalls + 1
    /\ lastResult' = flow.result
    /\ lastLaunched' = flow.launched
    /\ IF flow.record
       THEN /\ deploymentHistory' =
                  saveDeploymentHistory(deploymentHistory, target, flow.result, recorded + 1)
            /\ recorded' = recorded + 1
            /\ document' = IF writeOk
                           THEN WrittenDocument(document, deploymentHistory')
                           ELSE document
            /\ written' = IF writeOk THEN written \cup {recorded + 1} ELSE written
       ELSE UNCHANGED <<deploymentHistory, recorded, document, written>>
    /\ UNCHANGED loadPending

DMInit(docs, pending) ==
    /\ deploymentHistory = <<>>
    /\ document \in docs
    /\ loadPending = pending
    /\ recorded = 0
    /\ nCalls = 0
    /\ lastResult = NoResult
    /\ lastLaunched = <<>>
    /\ written = {}

NoConfig ==
    [steps |-> [install |-> FALSE, lint |-> FALSE, test |-> FALSE,
                security |-> FALSE, build |-> FALSE, deploy |-> FALSE],
     deployment |-> [target |-> "none", autoDeploy |-> FALSE],
     features |-> [injectTemplates |-> <<>>]]

NoPrerequisites == [nodejs |-> FALSE, npm |-> FALSE, git |-> FALSE]

WFIdle ==
    /\ prerequisites = NoPrerequisites
    /\ alive = {}
    /\ awaiting = "none"
    /\ mode = "idle"
    /\ pc = "idle"
    /\ config = NoConfig
    /\ idx = 1
    /\ steps = <<>>
    /\ wfSuccess = FALSE
    /\ wfDeployment = NoResult
    /\ launched = <<>>

(* The collaborators and helpers at rest: a TemplateManager whose catalog  *)
(* is not loaded yet and a clean target directory without package.json; no *)
(* executeCommand call and no report in progress.                          *)
VarNames == {"name", "flag"}

NoRequest ==
    [templateId |-> "", variables |-> [n \in VarNames |-> Undefined],
     sources |-> {}, writeOk |-> TRUE, scriptThrows |-> FALSE]

NoValidation == [valid |-> TRUE, errors |-> <<>>]

NoInjection ==
    [success |-> FALSE, injectedFiles |-> <<>>, installedDependencies |-> <<>>,
     errors |-> <<>>]

TargetPaths == {"a", "b", "{{name}}"}

CleanTree == [p \in TargetPaths |-> "none"]

DepNames == {"react", "lodash"}

NoManifest ==
    [exists |-> FALSE, valid |-> FALSE, hasDependencies |-> FALSE,
     dependencies |-> [d \in DepNames |-> Undefined]]

(* The map before loadTemplates assigned; created = the ids whose entry is *)
(* the one a createTemplate call put there                                 *)
NoTemplates == [loaded |-> FALSE, ids |-> {}, created |-> {}]

(* templates.json missing or unreadable *)
NoCatalogFile == [valid |-> FALSE, ids |-> {}, created |-> {}]

TMIdle ==
    /\ templates = NoTemplates
    /\ catalogFile = NoCatalogFile
    /\ request = NoRequest
    /\ validation = NoValidation
    /\ injection = NoInjection
    /\ tree = CleanTree
    /\ manifest = NoManifest
    /\ tmCalls = 0

NoCommandResult == [success |-> FALSE, output |-> <<>>, error |-> <<>>]

Pending == [state |-> "pending", value |-> NoCommandResult]

CmdIdle ==
    /\ cmdEvents = <<>>
    /\ cmdOutput = <<>>
    /\ cmdError = <<>>
    /\ cmdPromise = Pending

NoReport == [raised |-> FALSE, report |-> <<>>]

NoDeployment == [present |-> FALSE, success |-> Undefined, url |-> Undefined,
                 log |-> Undefined]

(* No call yet: an argument object without any field *)
NoWorkflowResult == [success |-> Undefined,
                     steps |-> [defined |-> FALSE, list |-> <<>>],
                     duration |-> Undefined,
                     deployment |-> NoDeployment]

RptIdle ==
    /\ rptInput = NoWorkflowResult
    /\ rptOutput = NoReport

(* No second DeploymentManager instance *)
PeerIdle ==
    /\ peerHistory = <<>>
    /\ peerLoadPending = FALSE
    /\ peerCalls = 0

EnvFiles == {".env", ".env.local", ".env.development"}

(* No scan yet *)
NoScanRequest ==
    [code |-> "0", parses |-> TRUE, audit |-> <<>>, sensitive |-> {},
     inspect |-> FALSE, packageJson |-> "none"]

NoSummary == [total |-> 0, critical |-> 0, high |-> 0, medium |-> 0, low |-> 0]

NoScanResult ==
    [raised |-> FALSE, vulnerabilities |-> <<>>, summary |-> NoSummary, passed |-> FALSE]

NoStep == [step |-> "", success |-> FALSE, output |-> "", error |-> ""]

ScanIdle ==
    /\ scanRequest = NoScanRequest
    /\ scanOutcome = NoScanResult
    /\ scanStep = NoStep

(* The renderer has not called runWorkflow *)
UiIdle ==
    /\ workflowStatus = "idle"
    /\ uiPc = "idle"
    /\ uiRuns = 0

LibIdle == TMIdle /\ CmdIdle /\ RptIdle /\ PeerIdle /\ ScanIdle /\ UiIdle

----------------------------------------------------------------------------
(* SpecDM: direct calls on a DeploymentManager *)

DMDeployToNetlify ==
    /\ nCalls < MaxCalls
    /\ \E env \in NetlifyEnvs, writeOk \in BOOLEAN :
          FlowEffect("netlify", deployToNetlify(env), writeOk)
    /\ UNCHANGED <<wfVars, libVars>>

DMDeployToVercel ==
    /\ nCalls < MaxCalls
    /\ \E env \in VercelEnvs, writeOk \in BOOLEAN :
          FlowEffect("vercel", deployToVercel(env), writeOk)
    /\ UNCHANGED <<wfVars, libVars>>

DMDeployToGitHubPages ==
    /\ nCalls < MaxCalls
    /\ \E env \in PagesEnvs, writeOk \in BOOLEAN :
          FlowEffect("github-pages", deployToGitHubPages(env), writeOk)
    /\ UNCHANGED <<wfVars, libVars>>

DMLoadHistory == LoadHistory /\ UNCHANGED <<wfVars, libVars>>

InitDM == DMInit(InitialDocs, TRUE) /\ WFIdle /\ LibIdle

NextDM ==
    \/ DMLoadHistory
    \/ DMDeployToNetlify
    \/ DMDeployToVercel
    \/ DMDeployToGitHubPages

SpecDM == InitDM /\ [][NextDM]_vars

----------------------------------------------------------------------------
(* SpecRing: a scripted run of recorded deployments.  No backing document  *)
(* exists and loadHistory has finished, so the history starts empty.  The  *)
(* k-th call uses the flows in rotation, every call reaches its publish    *)
(* step and is recorded; the publish command succeeds on every other call. *)

RingDeployToNetlify ==
    /\ recorded < MaxRingCalls
    /\ nCalls % 3 = 0
    /\ FlowEffect("netlify",
                  deployToNetlify([throws |-> FALSE, cli |-> TRUE, install |-> TRUE,
                                   init |-> TRUE, publish |-> (nCalls % 2 = 0),
                                   out |-> "json"]),
                  TRUE)
    /\ UNCHANGED <<wfVars, libVars>>

RingDeployToVercel ==
    /\ recorded < MaxRingCalls
    /\ nCalls % 3 = 1
    /\ FlowEffect("vercel",
                  deployToVercel([throws |-> FALSE, cli |-> TRUE, install |-> TRUE,
                                  publish |-> (nCalls % 2 = 0), out |-> "text-url"]),
                  TRUE)
    /\ UNCHANGED <<wfVars, libVars>>

RingDeployToGitHubPages ==
    /\ recorded < MaxRingCalls
    /\ nCalls % 3 = 2
    /\ FlowEffect("github-pages",
                  deployToGitHubPages([throws |-> (nCalls % 2 = 0), build |-> TRUE]),
                  TRUE)
    /\ UNCHANGED <<wfVars, libVars>>

InitRing == DMInit({NoDocument}, FALSE) /\ WFIdle /\ LibIdle

NextRing ==
    \/ RingDeployToNetlify
    \/ RingDeployToVercel
    \/ RingDeployToGitHubPages

SpecRing == InitRing /\ [][NextRing]_vars

----------------------------------------------------------------------------
(* SpecTwo: the two DeploymentManager instances of the application, the    *)
(* one MainApp constructs (deploymentHistory, loadPending, nCalls) and the *)
(* one its WorkflowOrchestrator constructs (peerHistory, peerLoadPending,  *)
(* peerCalls).  Both use the same historyPath, both start an un-awaited    *)
(* loadHistory, and deploy calls arrive at either of them.                 *)

MaxTwoCalls == 1  \* deployTo* calls per instance

TwoDocs == {NoDocument,
            [exists |-> TRUE, valid |-> TRUE, history |-> PersistedHistory(1)]}

(* The calls: a Netlify deployment that publishes, one whose publish       *)
(* command fails, one that gives up at the CLI bootstrap (not recorded),   *)
(* and a GitHub Pages deployment that builds.                              *)
TwoFlows ==
    {[target |-> "netlify", flow |-> deployToNetlify(env)] :
        env \in {e \in NetlifyEnvs :
                    /\ ~e.throws /\ e.init /\ e.out = "json"
                    /\ (e.cli \/ ~e.install)}}
    \cup {[target |-> "github-pages", flow |-> deployToGitHubPages(env)] :
            env \in {e \in PagesEnvs : ~e.throws /\ e.build}}

(* FlowEffect on the second instance *)
PeerFlowEffect(target, flow, writeOk) ==
    /\ peerCalls' = peerCalls + 1
    /\ IF flow.record
       THEN /\ peerHistory' =
                  saveDeploymentHistory(peerHistory, target, flow.result, recorded + 1)
            /\ recorded' = recorded + 1
            /\ document' = IF writeOk
                           THEN WrittenDocument(document, peerHistory')
                           ELSE document
            /\ written' = IF writeOk THEN written \cup {recorded + 1} ELSE written
       ELSE UNCHANGED <<peerHistory, recorded, document, written>>
    /\ UNCHANGED peerLoadPending

TwoDeploy ==
    /\ nCalls < MaxTwoCalls
    /\ \E f \in TwoFlows, writeOk \in BOOLEAN : FlowEffect(f.target, f.flow, writeOk)
    /\ UNCHANGED <<wfVars, libVars>>

TwoPeerDeploy ==
    /\ peerCalls < MaxTwoCalls
    /\ \E f \in TwoFlows, writeOk \in BOOLEAN : PeerFlowEffect(f.target, f.flow, writeOk)
    /\ UNCHANGED <<deploymentHistory, loadPending, nCalls, lastResult, lastLaunched>>
    /\ UNCHANGED <<wfVars, tmVars, cmdVars, rptVars, scanVars, uiVars>>

TwoPeerLoadHistory ==
    /\ peerLoadPending
    /\ peerLoadPending' = FALSE
    /\ peerHistory' =
          IF document.exists /\ document.valid
          THEN LoadedHistory(document)
          ELSE peerHistory
    /\ UNCHANGED peerCalls
    /\ UNCHANGED <<dmVars, wfVars, tmVars, cmdVars, rptVars, scanVars, uiVars>>

InitTwo ==
    /\ DMInit(TwoDocs, TRUE) /\ WFIdle /\ TMIdle /\ CmdIdle /\ RptIdle
    /\ ScanIdle /\ UiIdle
    /\ peerHistory = <<>>
    /\ peerLoadPending = TRUE
    /\ peerCalls = 0

NextTwo ==
    \/ DMLoadHistory
    \/ TwoPeerLoadHistory
    \/ TwoDeploy
    \/ TwoPeerDeploy

SpecTwo == InitTwo /\ [][NextTwo]_vars

----------------------------------------------------------------------------
(* TemplateManager *)

(* JavaScript values are written as their source text: "undefined" (also   *)
(* an absent key), "''", "'a'", "0", "false", ...                          *)
Falsy == {Undefined, "''", "0", "false"}

Truthy(v) == v \notin Falsy

(* String(value), as String.prototype.replace applies it *)
Stringify(v) ==
    CASE v = "''"  -> ""
      [] v = "'a'" -> "a"
      [] v = "'b'" -> "b"
      [] v = "'c'" -> "c"
      [] OTHER     -> v

RECURSIVE Flatten(_)
Flatten(ss) == IF ss = <<>> THEN <<>> ELSE Head(ss) \o Flatten(Tail(ss))

Includes(list, x) == \E i \in 1..Len(list) : list[i] = x

(* An optional array field: defined = the field is present *)
Absent == [defined |-> FALSE, list |-> <<>>]

Given(list) == [defined |-> TRUE, list |-> list]

TemplateFile(source, target, type) == [source |-> source, target |-> target, type |-> type]

TemplateVariable(name, type, required, options) ==
    [name |-> name, type |-> type, required |-> required, options |-> options]

(* templates.json: the catalog that loadTemplates reads.  t4 lacks the     *)
(* dependencies field (the document is not validated on load).             *)
Catalog ==
    [t1 |-> [files |-> <<TemplateFile("a.tpl", "a", "file"),
                         TemplateFile("b.tpl", "b", "file")>>,
             variables |-> <<TemplateVariable("name", "string", TRUE, Absent)>>,
             dependencies |-> Given(<<"react", "lodash">>),
             installScripts |-> Given(<<"npm run setup {{name}}">>)],
     t2 |-> [files |-> <<TemplateFile("dir", "a", "directory"),
                         TemplateFile("c.tpl", "{{name}}", "file")>>,
             variables |-> <<TemplateVariable("name", "select", FALSE,
                                              Given(<<"'a'", "'b'">>)),
                             TemplateVariable("flag", "boolean", TRUE, Absent)>>,
             dependencies |-> Given(<<>>),
             installScripts |-> Absent],
     t3 |-> [files |-> <<TemplateFile("c.tpl", "b", "file"),
                         TemplateFile("dir", "b", "directory")>>,
             variables |-> <<>>,
             dependencies |-> Given(<<"react">>),
             installScripts |-> Absent],
     t4 |-> [files |-> <<TemplateFile("a.tpl", "a", "file")>>,
             variables |-> <<>>,
             dependencies |-> Absent,
             installScripts |-> Absent]]

CatalogIds == DOMAIN Catalog

(* templates.json as shipped *)
ManifestFile == [valid |-> TRUE, ids |-> CatalogIds, created |-> {}]

(* loadTemplates: when templates.json exists and parses, templates.set for *)
(* each of its entries; an entry of the map with the same id is replaced.  *)
loadTemplates(map, file) ==
    IF file.valid
    THEN [loaded |-> TRUE, ids |-> map.ids \cup file.ids,
          created |-> (map.created \ file.ids) \cup file.created]
    ELSE [map EXCEPT !.loaded = TRUE]

(* createTemplate: templates.set(template.id, template) *)
createTemplate(map, id) ==
    [map EXCEPT !.ids = @ \cup {id}, !.created = @ \cup {id}]

(* saveTemplates: writeJson of getTemplates() *)
saveTemplates(map) == [valid |-> TRUE, ids |-> map.ids, created |-> map.created]

(* validateVariables *)
validateVariablesSelectOnly(template, variables) ==
    LET check(v) ==
            IF Truthy(variables[v.name]) /\ v.type = "select" /\ v.options.defined
                 /\ ~Includes(v.options.list, variables[v.name])
            THEN <<"Invalid value for " \o v.name>>
            ELSE <<>>
        errors == Flatten([i \in 1..Len(template.variables) |->
                              check(template.variables[i])])
    IN  [valid |-> errors = <<>>, errors |-> errors]

validateVariables(template, variables) ==
    LET check(v) ==
            (IF v.required /\ ~Truthy(variables[v.name])
             THEN <<"Required variable missing: " \o v.name>>
             ELSE <<>>)
            \o
            (IF Truthy(variables[v.name]) /\ v.type = "select" /\ v.options.defined
                  /\ ~Includes(v.options.list, variables[v.name])
             THEN <<"Invalid value for " \o v.name>>
             ELSE <<>>)
        errors == Flatten([i \in 1..Len(template.variables) |->
                              check(template.variables[i])])
    IN  [valid |-> errors = <<>>, errors |-> errors]

(* resolvePath: every {{key}} of a supplied key is replaced by its value.  *)
(* "." is the target directory itself (an empty relative path).            *)
resolvePath(pathStr, variables) ==
    IF pathStr = "{{name}}" /\ variables["name"] # Undefined
    THEN IF Stringify(variables["name"]) = "" THEN "."
         ELSE Stringify(variables["name"])
    ELSE pathStr

KindAt(tr, path) == IF path \in DOMAIN tr THEN tr[path] ELSE "dir"

(* injectFile: a raise of fs (EEXIST, EISDIR) is caught and gives          *)
(* success=false.  Yields the outcome and the tree afterwards.             *)
injectFileNoOverwrite(file, tr, req) ==
    LET finalTargetPath == resolvePath(file.target, req.variables)
        failed == [success |-> FALSE, path |-> Undefined, tree |-> tr]
    IN  IF file.type = "directory"
        THEN IF KindAt(tr, finalTargetPath) = "file" THEN failed
             ELSE [success |-> TRUE, path |-> finalTargetPath,
                   tree |-> IF finalTargetPath \in DOMAIN tr
                            THEN [tr EXCEPT ![finalTargetPath] = "dir"] ELSE tr]
        ELSE IF file.source \in req.sources
        THEN IF KindAt(tr, finalTargetPath) # "none" THEN failed
             ELSE [success |-> TRUE, path |-> finalTargetPath,
                   tree |-> [tr EXCEPT ![finalTargetPath] = "file"]]
        ELSE failed

injectFile(file, tr, req) ==
    LET finalTargetPath == resolvePath(file.target, req.variables)
        failed == [success |-> FALSE, path |-> Undefined, tree |-> tr]
    IN  IF file.type = "directory"
        THEN IF KindAt(tr, finalTargetPath) = "file" THEN failed
             ELSE [success |-> TRUE, path |-> finalTargetPath,
                   tree |-> IF finalTargetPath \in DOMAIN tr
                            THEN [tr EXCEPT ![finalTargetPath] = "dir"] ELSE tr]
        ELSE IF file.source \in req.sources
        THEN IF KindAt(tr, finalTargetPath) = "dir" THEN failed
             ELSE [success |-> TRUE, path |-> finalTargetPath,
                   tree |-> [tr EXCEPT ![finalTargetPath] = "file"]]
        ELSE failed

(* The body of the loop over template.files after injectFile returned *)
RecordFileSilently(acc, file, fileResult) ==
    IF fileResult.success
    THEN [acc EXCEPT !.tree = fileResult.tree,
                     !.injectedFiles = Append(@, fileResult.path)]
    ELSE acc

RecordFile(acc, file, fileResult) ==
    IF fileResult.success
    THEN [acc EXCEPT !.tree = fileResult.tree,
                     !.injectedFiles = Append(@, fileResult.path)]
    ELSE [acc EXCEPT !.errors = Append(@, "Failed to inject file: " \o file.source)]

(* The loop over template.files, from file i on *)
RECURSIVE InjectFiles(_, _, _, _)
InjectFiles(files, i, acc, req) ==
    IF i > Len(files) THEN acc
    ELSE InjectFiles(files, i + 1,
                     RecordFile(acc, files[i], injectFile(files[i], acc.tree, req)),
                     req)

(* The loop over the declared dependencies, from dependency i on *)
RECURSIVE MergeDependencies(_, _, _)
MergeDependencies(dependencies, i, acc) ==
    IF i > Len(dependencies) THEN acc
    ELSE LET dep == dependencies[i]
         IN  MergeDependencies(dependencies, i + 1,
                 IF ~Truthy(acc.dependencies[dep])
                 THEN [dependencies |-> [acc.dependencies EXCEPT ![dep] = "'latest'"],
                       installed |-> Append(acc.installed, dep)]
                 ELSE acc)

(* installDependencies: a raise of readJson / writeJson is caught and      *)
(* reported; installed keeps what the loop pushed.                         *)
installDependencies(mf, dependencies, writeOk) ==
    IF ~mf.exists
    THEN [installed |-> <<>>, errors |-> <<>>, manifest |-> mf]
    ELSE IF ~mf.valid
    THEN [installed |-> <<>>, errors |-> <<"Failed to install dependencies">>,
          manifest |-> mf]
    ELSE LET merged == MergeDependencies(dependencies, 1,
                           [dependencies |-> mf.dependencies, installed |-> <<>>])
         IN  IF writeOk
             THEN [installed |-> merged.installed, errors |-> <<>>,
                   manifest |-> [mf EXCEPT !.hasDependencies = TRUE,
                                           !.dependencies = merged.dependencies]]
             ELSE [installed |-> merged.installed,
                   errors |-> <<"Failed to install dependencies">>,
                   manifest |-> mf]

(* runInstallScript: only logs; a raise of replaceVariables is caught.     *)
(* Yields the errors it contributes to the result.                         *)
runInstallScript(script, throws) == <<>>

(* result.success = result.errors.length === 0 *)
SuccessIgnoringDependencies(fileErrors, errors) == fileErrors = <<>>

Success(fileErrors, errors) == errors = <<>>

(* The result of an id that is not in the map *)
TemplateNotFoundAsSuccess(templateId) == [NoInjection EXCEPT !.success = TRUE]

TemplateNotFound(templateId) ==
    [NoInjection EXCEPT !.errors = <<"Template not found: " \o templateId>>]

(* injectTemplate: yields the InjectionResult, the validation result it    *)
(* computed, and the target tree and manifest afterwards.                  *)
managerInjectTemplate(req, catalog, tr, mf) ==
    LET templateId == req.templateId
        template == Catalog[templateId]
        validationResult == validateVariables(template, req.variables)
        injected == InjectFiles(template.files, 1,
                        [tree |-> tr, injectedFiles |-> <<>>, errors |-> <<>>], req)
        depResult == IF Len(template.dependencies.list) > 0
                     THEN installDependencies(mf, template.dependencies.list, req.writeOk)
                     ELSE [installed |-> <<>>, errors |-> <<>>, manifest |-> mf]
        scriptErrors == IF template.installScripts.defined
                        THEN Flatten([i \in 1..Len(template.installScripts.list) |->
                                 runInstallScript(template.installScripts.list[i],
                                                  req.scriptThrows)])
                        ELSE <<>>
        errors == injected.errors \o depResult.errors \o scriptErrors
    IN  IF templateId \notin catalog.ids
        THEN [result |-> TemplateNotFound(templateId),
              validation |-> NoValidation, tree |-> tr, manifest |-> mf]
        ELSE IF ~validationResult.valid
        THEN [result |-> [NoInjection EXCEPT !.errors = validationResult.errors],
              validation |-> validationResult, tree |-> tr, manifest |-> mf]
        ELSE IF ~template.dependencies.defined
        THEN [result |-> [success |-> FALSE,
                          injectedFiles |-> injected.injectedFiles,
                          installedDependencies |-> <<>>,
                          errors |-> Append(injected.errors, "Unexpected error")],
              validation |-> validationResult,
              tree |-> injected.tree, manifest |-> mf]
        ELSE [result |-> [success |-> Success(injected.errors, errors),
                          injectedFiles |-> injected.injectedFiles,
                          installedDependencies |-> depResult.installed,
                          errors |-> errors],
              validation |-> validationResult,
              tree |-> injected.tree, manifest |-> depResult.manifest]

(* SpecTM: calls of injectTemplate on a TemplateManager whose constructor  *)
(* started an un-awaited loadTemplates, against one target directory.      *)

MaxInjectCalls == 2  \* injectTemplate calls per behaviour of SpecTM

NameValues == {Undefined, "''", "'a'", "'c'"}

FlagValues == {Undefined, "false", "true"}

Sources == {"a.tpl", "b.tpl", "c.tpl"}

SourcesOf(templateId) ==
    IF templateId \in CatalogIds
    THEN {Catalog[templateId].files[i].source :
             i \in {j \in 1..Len(Catalog[templateId].files) :
                       Catalog[templateId].files[j].type = "file"}}
    ELSE {}

(* The calls explored.  What a call cannot observe is fixed: sources the   *)
(* template does not name, the manifest write of a template without        *)
(* dependencies, the script of a template without scripts.                 *)
Requests ==
    {r \in [templateId : CatalogIds \cup {"unknown"},
            variables : [VarNames -> NameValues \cup FlagValues],
            sources : SUBSET Sources,
            writeOk : BOOLEAN, scriptThrows : BOOLEAN] :
        /\ r.variables["name"] \in NameValues
        /\ r.variables["flag"] \in FlagValues
        /\ r.sources \subseteq SourcesOf(r.templateId)
        /\ r.templateId \in {"t4", "unknown"} =>
              r.variables = [n \in VarNames |-> Undefined]
        /\ ~r.writeOk => /\ r.templateId \in CatalogIds
                         /\ Catalog[r.templateId].dependencies.list # <<>>
        /\ r.scriptThrows => /\ r.templateId \in CatalogIds
                             /\ Catalog[r.templateId].installScripts.defined}

Manifest(deps) ==
    [exists |-> TRUE, valid |-> TRUE, hasDependencies |-> TRUE, dependencies |-> deps]

InitialManifests ==
    {NoManifest,
     [NoManifest EXCEPT !.exists = TRUE],
     [NoManifest EXCEPT !.exists = TRUE, !.valid = TRUE],
     Manifest([d \in DepNames |-> IF d = "react" THEN "'^18.0.0'" ELSE Undefined]),
     Manifest([d \in DepNames |-> IF d = "react" THEN "''" ELSE "'4.17.21'"])}

TMLoadTemplates ==
    /\ ~templates.loaded
    /\ \E ok \in BOOLEAN :
          templates' = loadTemplates(templates, IF ok THEN ManifestFile ELSE NoCatalogFile)
    /\ UNCHANGED <<catalogFile, request, validation, injection, tree, manifest, tmCalls>>
    /\ UNCHANGED <<dmVars, peerVars, scanVars, uiVars, wfVars, cmdVars, rptVars>>

Call(req) ==
    LET r == managerInjectTemplate(req, templates, tree, manifest)
    IN  /\ request' = req
        /\ validation' = r.validation
        /\ injection' = r.result
        /\ tree' = r.tree
        /\ manifest' = r.manifest
        /\ tmCalls' = tmCalls + 1
        /\ UNCHANGED <<templates, catalogFile>>
        /\ UNCHANGED <<dmVars, peerVars, scanVars, uiVars, wfVars, cmdVars, rptVars>>

(* The first call, with any arguments *)
TMInjectTemplate ==
    /\ tmCalls = 0
    /\ \E req \in Requests : Call(req)

(* A later call with the arguments of the call before *)
TMInjectTemplateAgain ==
    /\ tmCalls > 0
    /\ tmCalls < MaxInjectCalls
    /\ Call(request)

InitTM ==
    /\ DMInit({NoDocument}, FALSE) /\ WFIdle /\ CmdIdle /\ RptIdle /\ PeerIdle
    /\ ScanIdle /\ UiIdle
    /\ templates = NoTemplates
    /\ catalogFile = NoCatalogFile
    /\ request = NoRequest
    /\ validation = NoValidation
    /\ injection = NoInjection
    /\ tree = CleanTree
    /\ manifest \in InitialManifests
    /\ tmCalls = 0

NextTM ==
    \/ TMLoadTemplates
    \/ TMInjectTemplate
    \/ TMInjectTemplateAgain

SpecTM == InitTM /\ [][NextTM]_vars

(* SpecCatalog: the catalog of a TemplateManager whose constructor started *)
(* an un-awaited loadTemplates, with createTemplate calls and one          *)
(* injectTemplate call arriving before or after the load completes.        *)

CreatedIds == {"t1", "t3"}

CatLoadTemplates ==
    /\ ~templates.loaded
    /\ templates' = loadTemplates(templates, catalogFile)
    /\ UNCHANGED <<catalogFile, request, validation, injection, tree, manifest, tmCalls>>
    /\ UNCHANGED <<dmVars, peerVars, scanVars, uiVars, wfVars, cmdVars, rptVars>>

(* createTemplate; writeOk = ensureDir and writeJson of saveTemplates      *)
(* succeed (otherwise the call rejects after the map was changed)          *)
CatCreateTemplate ==
    /\ \E id \in CreatedIds, writeOk \in BOOLEAN :
          /\ templates' = createTemplate(templates, id)
          /\ catalogFile' = IF writeOk THEN saveTemplates(templates') ELSE catalogFile
    /\ UNCHANGED <<request, validation, injection, tree, manifest, tmCalls>>
    /\ UNCHANGED <<dmVars, peerVars, scanVars, uiVars, wfVars, cmdVars, rptVars>>

InitCatalog ==
    /\ DMInit({NoDocument}, FALSE) /\ WFIdle /\ CmdIdle /\ RptIdle /\ PeerIdle
    /\ ScanIdle /\ UiIdle
    /\ templates = NoTemplates
    /\ catalogFile \in {NoCatalogFile, ManifestFile}
    /\ request = NoRequest
    /\ validation = NoValidation
    /\ injection = NoInjection
    /\ tree = CleanTree
    /\ manifest = NoManifest
    /\ tmCalls = 0

NextCatalog ==
    \/ CatLoadTemplates
    \/ CatCreateTemplate
    \/ TMInjectTemplate

SpecCatalog == InitCatalog /\ [][NextCatalog]_vars

----------------------------------------------------------------------------
(* WorkflowOrchestrator *)

(* Bounds: the template ids a WorkflowConfig may list *)
MaxTemplates == 2

TemplateIds == <<"t1", "t2", "t3">>

TemplateLists == {SubSeq(TemplateIds, 1, n) : n \in 0..MaxTemplates}

DeployTargets == {"netlify", "vercel", "github-pages", "none"}

Configs ==
    [steps : [install : BOOLEAN, lint : BOOLEAN, test : BOOLEAN,
              security : BOOLEAN, build : BOOLEAN, deploy : BOOLEAN],
     deployment : [target : DeployTargets, autoDeploy : BOOLEAN],
     features : [injectTemplates : TemplateLists]]

(* executeCommand resolves on 'close' (exit code) or on 'error' (launch    *)
(* failure); it never rejects.                                             *)
CommandOutcomes == {"exit0", "nonzero", "error"}

executeCommand(outcome) ==
    [success |-> (outcome = "exit0"),
     output |-> IF outcome = "error" THEN "" ELSE "stdout",
     error |-> IF outcome = "error" THEN "err.message" ELSE "stderr"]

executeStep(name, outcome) ==
    LET result == executeCommand(outcome)
    IN  [step |-> name, success |-> result.success,
         output |-> result.output, error |-> result.error]

(* The steps array of runFullPipeline *)
PipelineSteps ==
    <<"Dependency Installation", "Linting", "Testing", "Security Audit", "Build">>

(* The loop test of runFullPipeline: break after this result? *)
PipelineBreaksNever(result, name) == FALSE

PipelineBreaksAlways(result, name) == ~result.success

PipelineBreaks(result, name) == ~result.success /\ name # "Security Audit"

CallRunFullPipeline ==
    /\ mode = "idle"
    /\ mode' = "pipeline"
    /\ pc' = "step"
    /\ idx' = 1
    /\ UNCHANGED <<config, steps, wfSuccess, wfDeployment, launched, prerequisites, procVars>>
    /\ UNCHANGED <<dmVars, libVars>>

(* One iteration of the for loop: executeStep, push, break test *)
PipelineStep ==
    /\ mode = "pipeline"
    /\ pc = "step"
    /\ \E outcome \in CommandOutcomes :
          LET name == PipelineSteps[idx]
              result == executeStep(name, outcome)
          IN  /\ steps' = Append(steps, result)
              /\ launched' = Append(launched, name)
              /\ IF PipelineBreaks(result, name) \/ idx = Len(PipelineSteps)
                 THEN pc' = "done" /\ idx' = idx
                 ELSE pc' = "step" /\ idx' = idx + 1
    /\ UNCHANGED <<mode, config, wfSuccess, wfDeployment, prerequisites, procVars>>
    /\ UNCHANGED <<dmVars, libVars>>

(* runCompleteWorkflow: the stages in source order and their conditions *)
Stages == <<"install", "templates", "lint", "test", "security", "build", "deploy">>

DeployEnabledNoAuto(cfg) == cfg.steps.deploy

DeployEnabled(cfg) == cfg.steps.deploy /\ cfg.deployment.autoDeploy

StageEnabledLintAlways(cfg, stage) ==
    CASE stage = "install"   -> cfg.steps.install
      [] stage = "templates" -> Len(cfg.features.injectTemplates) > 0
      [] stage = "lint"      -> TRUE
      [] stage = "test"      -> cfg.steps.test
      [] stage = "security"  -> cfg.steps.security
      [] stage = "build"     -> cfg.steps.build
      [] stage = "deploy"    -> DeployEnabled(cfg)

StageEnabled(cfg, stage) ==
    CASE stage = "install"   -> cfg.steps.install
      [] stage = "templates" -> Len(cfg.features.injectTemplates) > 0
      [] stage = "lint"      -> cfg.steps.lint
      [] stage = "test"      -> cfg.steps.test
      [] stage = "security"  -> cfg.steps.security
      [] stage = "build"     -> cfg.steps.build
      [] stage = "deploy"    -> DeployEnabled(cfg)

StageIndex(stage) == CHOOSE k \in 1..Len(Stages) : Stages[k] = stage

(* The next stage after position k whose condition holds, "finish" if none *)
NextStage(cfg, k) ==
    LET later == {j \in (k + 1)..Len(Stages) : StageEnabled(cfg, Stages[j])}
    IN  IF later = {} THEN "finish"
        ELSE Stages[CHOOSE j \in later : \A i \in later : j <= i]

SyntheticStep(message) ==
    [step |-> "Workflow Execution", success |-> FALSE, output |-> "", error |-> message]

ThrowDroppingSteps(message, newSteps) ==
    /\ steps' = <<SyntheticStep(message)>>
    /\ pc' = "done"
    /\ idx' = idx
    /\ wfSuccess' = wfSuccess

ThrowUnhandled(message, newSteps) ==
    /\ steps' = newSteps
    /\ pc' = "unhandled"
    /\ idx' = idx
    /\ wfSuccess' = wfSuccess

(* throw new Error(message), caught by the catch block of the entry point *)
Throw(message, newSteps) ==
    /\ steps' = Append(newSteps, SyntheticStep(message))
    /\ pc' = "done"
    /\ idx' = idx
    /\ wfSuccess' = wfSuccess

(* Control falls through to the stage after k; when none is left,          *)
(* results.success = true and the result is returned.                      *)
AdvanceOnlyIfPassed(k, newSteps) ==
    LET next == NextStage(config, k)
    IN  IF newSteps # <<>> /\ ~newSteps[Len(newSteps)].success
        THEN Throw("Step failed", newSteps)
        ELSE /\ steps' = newSteps
             /\ idx' = 1
             /\ IF next = "finish"
                THEN pc' = "done" /\ wfSuccess' = TRUE
                ELSE pc' = next /\ wfSuccess' = wfSuccess

Advance(k, newSteps) ==
    LET next == NextStage(config, k)
    IN  /\ steps' = newSteps
        /\ idx' = 1
        /\ IF next = "finish"
           THEN pc' = "done" /\ wfSuccess' = TRUE
           ELSE pc' = next /\ wfSuccess' = wfSuccess

(* A blocking stage raises on failure *)
BlockingNever(result) == FALSE

Blocking(result) == ~result.success

CallRunCompleteWorkflow ==
    /\ mode = "idle"
    /\ \E cfg \in Configs : config' = cfg
    /\ mode' = "workflow"
    /\ pc' = "prereq"
    /\ UNCHANGED <<idx, steps, wfSuccess, wfDeployment, launched, prerequisites, procVars>>
    /\ UNCHANGED <<dmVars, libVars>>

(* checkPrerequisites: the three probes of Promise.all *)
checkPrerequisites(nodejs, npm, git) ==
    [nodejs |-> executeCommand(nodejs).success,
     npm |-> executeCommand(npm).success,
     git |-> executeCommand(git).success]

(* The gate: if (!prerequisites.nodejs || !prerequisites.npm) throw *)
PrerequisitesMissingGit(p) == ~p.nodejs \/ ~p.npm \/ ~p.git

PrerequisitesMissingBoth(p) == ~p.nodejs /\ ~p.npm

PrerequisitesMissing(p) == ~p.nodejs \/ ~p.npm

CheckPrerequisites ==
    /\ mode = "workflow"
    /\ pc = "prereq"
    /\ launched' = Append(launched, "prerequisites")
    /\ \E nodejs \in CommandOutcomes, npm \in CommandOutcomes, git \in CommandOutcomes :
          /\ prerequisites' = checkPrerequisites(nodejs, npm, git)
          /\ IF PrerequisitesMissing(prerequisites')
             THEN Throw("Node.js and npm are required", steps)
             ELSE Advance(0, steps)
    /\ UNCHANGED <<mode, config, wfDeployment, procVars>>
    /\ UNCHANGED <<dmVars, libVars>>

StageInstall ==
    /\ mode = "workflow"
    /\ pc = "install"
    /\ launched' = Append(launched, "Dependency Installation")
    /\ \E outcome \in CommandOutcomes :
          LET installResult == executeStep("Dependency Installation", outcome)
          IN  IF Blocking(installResult)
              THEN Throw("Dependency installation failed", Append(steps, installResult))
              ELSE Advance(StageIndex("install"), Append(steps, installResult))
    /\ UNCHANGED <<mode, config, wfDeployment, prerequisites, procVars>>
    /\ UNCHANGED <<dmVars, libVars>>

(* injectTemplate of the orchestrator: the TemplateManager's result is     *)
(* wrapped into a StepResult; a raise of the collaborator is caught.       *)
InjectionOutcomes == {"ok", "errors", "throws"}

(* What the TemplateManager returns for the outcome (nothing if it raises) *)
InjectionResultOf(outcome) ==
    CASE outcome = "ok" ->
           [success |-> TRUE, injectedFiles |-> <<"a", "b">>,
            installedDependencies |-> <<"react">>, errors |-> <<>>]
      [] outcome = "errors" ->
           [success |-> FALSE, injectedFiles |-> <<"b">>,
            installedDependencies |-> <<>>,
            errors |-> <<"Failed to inject file: a.tpl",
                         "Failed to install dependencies">>]
      [] OTHER -> NoInjection

(* Array.prototype.join(', ') *)
RECURSIVE Join(_)
Join(list) ==
    IF list = <<>> THEN ""
    ELSE IF Len(list) = 1 THEN list[1]
    ELSE list[1] \o ", " \o Join(Tail(list))

injectTemplateFirstError(templateId, outcome) ==
    LET result == InjectionResultOf(outcome)
    IN  IF outcome = "throws"
        THEN [step |-> "Template Injection: " \o templateId, success |-> FALSE,
              output |-> "", error |-> "error.message"]
        ELSE [step |-> "Template Injection: " \o templateId,
              success |-> result.success,
              output |-> "Injected files: " \o Join(result.injectedFiles),
              error |-> IF result.errors = <<>> THEN "" ELSE result.errors[1]]

injectTemplate(templateId, outcome) ==
    LET result == InjectionResultOf(outcome)
    IN  IF outcome = "throws"
        THEN [step |-> "Template Injection: " \o templateId, success |-> FALSE,
              output |-> "", error |-> "error.message"]
        ELSE [step |-> "Template Injection: " \o templateId,
              success |-> result.success,
              output |-> "Injected files: " \o Join(result.injectedFiles),
              error |-> Join(result.errors)]

(* One iteration of the loop over features.injectTemplates *)
StageInjectTemplate ==
    /\ mode = "workflow"
    /\ pc = "templates"
    /\ \E outcome \in InjectionOutcomes :
          LET templateId == config.features.injectTemplates[idx]
              injectionResult == injectTemplate(templateId, outcome)
          IN  /\ launched' = Append(launched, "Template Injection: " \o templateId)
              /\ injection' = InjectionResultOf(outcome)
              /\ IF idx < Len(config.features.injectTemplates)
                 THEN /\ steps' = Append(steps, injectionResult)
                      /\ idx' = idx + 1
                      /\ UNCHANGED <<pc, wfSuccess>>
                 ELSE Advance(StageIndex("templates"), Append(steps, injectionResult))
    /\ UNCHANGED <<mode, config, wfDeployment, prerequisites, procVars>>
    /\ UNCHANGED <<templates, catalogFile, request, validation, tree, manifest, tmCalls>>
    /\ UNCHANGED <<dmVars, peerVars, scanVars, uiVars, cmdVars, rptVars>>

(* The variables argument of the orchestrator's call of                   *)
(* templateManager.injectTemplate: the literal {}                         *)
OrchestratorVariablesDefaults ==
    [n \in VarNames |-> IF n = "name" THEN "'a'" ELSE "true"]

OrchestratorVariables == [n \in VarNames |-> Undefined]

(* The PipelineResult injectTemplate builds from the manager's result *)
InjectionStep(templateId, result) ==
    [step |-> "Template Injection: " \o templateId,
     success |-> result.success,
     output |-> "Injected files: " \o Join(result.injectedFiles),
     error |-> Join(result.errors)]

(* One iteration of the loop over features.injectTemplates, with the      *)
(* TemplateManager's injectTemplate carried out on the project directory; *)
(* the manager catches what its helpers raise, so the call returns.       *)
StageInjectTemplateManaged ==
    /\ mode = "workflow"
    /\ pc = "templates"
    /\ \E req \in Requests :
          LET templateId == config.features.injectTemplates[idx]
              r == managerInjectTemplate(req, templates, tree, manifest)
              injectionResult == InjectionStep(templateId, r.result)
          IN  /\ req.templateId = templateId
              /\ req.variables = OrchestratorVariables
              /\ launched' = Append(launched, "Template Injection: " \o templateId)
              /\ request' = req
              /\ validation' = r.validation
              /\ injection' = r.result
              /\ tree' = r.tree
              /\ manifest' = r.manifest
              /\ tmCalls' = tmCalls + 1
              /\ IF idx < Len(config.features.injectTemplates)
                 THEN /\ steps' = Append(steps, injectionResult)
                      /\ idx' = idx + 1
                      /\ UNCHANGED <<pc, wfSuccess>>
                 ELSE Advance(StageIndex("templates"), Append(steps, injectionResult))
    /\ UNCHANGED <<mode, config, wfDeployment, prerequisites, procVars>>
    /\ UNCHANGED <<templates, catalogFile>>
    /\ UNCHANGED <<dmVars, peerVars, scanVars, uiVars, cmdVars, rptVars>>

StageLint ==
    /\ mode = "workflow"
    /\ pc = "lint"
    /\ launched' = Append(launched, "Linting")
    /\ \E outcome \in CommandOutcomes :
          LET lintResult == executeStep("Linting", outcome)
          IN  Advance(StageIndex("lint"), Append(steps, lintResult))
    /\ UNCHANGED <<mode, config, wfDeployment, prerequisites, procVars>>
    /\ UNCHANGED <<dmVars, libVars>>

StageTest ==
    /\ mode = "workflow"
    /\ pc = "test"
    /\ launched' = Append(launched, "Testing")
    /\ \E outcome \in CommandOutcomes :
          LET testResult == executeStep("Testing", outcome)
          IN  IF Blocking(testResult)
              THEN Throw("Tests failed", Append(steps, testResult))
              ELSE Advance(StageIndex("test"), Append(steps, testResult))
    /\ UNCHANGED <<mode, config, wfDeployment, prerequisites, procVars>>
    /\ UNCHANGED <<dmVars, libVars>>

(* SecurityScanner.scanProject: passed iff no critical and no high finding *)
ScanSummaries ==
    {[critical |-> c, high |-> h, medium |-> m] : c \in 0..1, h \in 0..1, m \in 0..1}

scanProjectCriticalOnly(summary) ==
    [summary |-> summary, passed |-> (summary.critical = 0)]

scanProject(summary) ==
    [summary |-> summary, passed |-> (summary.critical = 0 /\ summary.high = 0)]

(* runSecurityScan: wraps the scan result; a raise of the scanner is caught *)
runSecurityScanSwallow(throws, summary) ==
    LET scanResult == scanProject(summary)
    IN  IF throws
        THEN [step |-> "Security Scan", success |-> TRUE, output |-> "",
              error |-> "error.message"]
        ELSE [step |-> "Security Scan", success |-> scanResult.passed,
              output |-> "Vulnerabilities found: ...",
              error |-> IF scanResult.passed THEN ""
                        ELSE "Security vulnerabilities detected"]

runSecurityScan(throws, summary) ==
    LET scanResult == scanProject(summary)
    IN  IF throws
        THEN [step |-> "Security Scan", success |-> FALSE, output |-> "",
              error |-> "error.message"]
        ELSE [step |-> "Security Scan", success |-> scanResult.passed,
              output |-> "Vulnerabilities found: ...",
              error |-> IF scanResult.passed THEN ""
                        ELSE "Security vulnerabilities detected"]

StageSecurity ==
    /\ mode = "workflow"
    /\ pc = "security"
    /\ launched' = Append(launched, "Security Scan")
    /\ \E throws \in BOOLEAN, summary \in ScanSummaries :
          LET securityResult == runSecurityScan(throws, summary)
          IN  Advance(StageIndex("security"), Append(steps, securityResult))
    /\ UNCHANGED <<mode, config, wfDeployment, prerequisites, procVars>>
    /\ UNCHANGED <<dmVars, libVars>>

StageBuild ==
    /\ mode = "workflow"
    /\ pc = "build"
    /\ launched' = Append(launched, "Build")
    /\ \E outcome \in CommandOutcomes :
          LET buildResult == executeStep("Build", outcome)
          IN  IF Blocking(buildResult)
              THEN Throw("Build failed", Append(steps, buildResult))
              ELSE Advance(StageIndex("build"), Append(steps, buildResult))
    /\ UNCHANGED <<mode, config, wfDeployment, prerequisites, procVars>>
    /\ UNCHANGED <<dmVars, libVars>>

(* if (!deployResult.success) throw new Error('Deployment failed') *)
DeploymentFailedNever(deployResult) == FALSE

DeploymentFailed(deployResult) == ~deployResult.success

(* deployProject: the switch on deploymentConfig.target *)
SupportedTargets == {"netlify", "vercel", "github-pages"}

FlowEnvs(target) ==
    CASE target = "netlify"      -> NetlifyEnvs
      [] target = "vercel"       -> VercelEnvs
      [] target = "github-pages" -> PagesEnvs
      [] OTHER                   -> {[throws |-> TRUE]}

NoFlow == [result |-> NoResult, record |-> FALSE, launched |-> <<>>]

(* raised = the default arm threw 'Unsupported deployment target' *)
deployProjectFailedResult(target, env) ==
    CASE target = "netlify"      -> [raised |-> FALSE, flow |-> deployToNetlify(env)]
      [] target = "vercel"       -> [raised |-> FALSE, flow |-> deployToVercel(env)]
      [] target = "github-pages" -> [raised |-> FALSE, flow |-> deployToGitHubPages(env)]
      [] OTHER                   -> [raised |-> FALSE, flow |-> NoFlow]

deployProject(target, env) ==
    CASE target = "netlify"      -> [raised |-> FALSE, flow |-> deployToNetlify(env)]
      [] target = "vercel"       -> [raised |-> FALSE, flow |-> deployToVercel(env)]
      [] target = "github-pages" -> [raised |-> FALSE, flow |-> deployToGitHubPages(env)]
      [] OTHER                   -> [raised |-> TRUE, flow |-> NoFlow]

StageDeploy ==
    /\ mode = "workflow"
    /\ pc = "deploy"
    /\ launched' = Append(launched, "Deploy")
    /\ LET target == config.deployment.target
       IN  \E env \in FlowEnvs(target), writeOk \in BOOLEAN :
              IF ~deployProject(target, env).raised
              THEN LET flow == deployProject(target, env).flow
                   IN  /\ FlowEffect(target, flow, writeOk)
                       /\ wfDeployment' = flow.result
                       /\ IF DeploymentFailed(flow.result)
                          THEN Throw("Deployment failed", steps)
                          ELSE Advance(StageIndex("deploy"), steps)
              ELSE /\ Throw("Unsupported deployment target: " \o target, steps)
                   /\ UNCHANGED wfDeployment
                   /\ UNCHANGED <<dmVars, libVars>>
    /\ UNCHANGED <<mode, config, prerequisites, procVars, libVars>>

Init == DMInit({NoDocument}, FALSE) /\ WFIdle /\ LibIdle

Next ==
    \/ CallRunFullPipeline
    \/ PipelineStep
    \/ CallRunCompleteWorkflow
    \/ CheckPrerequisites
    \/ StageInstall
    \/ StageInjectTemplate
    \/ StageLint
    \/ StageTest
    \/ StageSecurity
    \/ StageBuild
    \/ StageDeploy

Spec == Init /\ [][Next]_vars

(* SpecInject: runCompleteWorkflow runs whose template injections are      *)
(* carried out by the TemplateManager on the project directory.  The       *)
(* configurations list any templates of the catalog and switch on lint    *)
(* and build only; the manager's loadTemplates is un-awaited.              *)

InjectLists == UNION {[1..n -> {"t1", "t2", "t3"}] : n \in 0..MaxTemplates}

InjectConfigs ==
    [steps : [install : {FALSE}, lint : BOOLEAN, test : {FALSE},
              security : {FALSE}, build : BOOLEAN, deploy : {FALSE}],
     deployment : [target : {"none"}, autoDeploy : {FALSE}],
     features : [injectTemplates : InjectLists]]

InjCallRunCompleteWorkflow ==
    /\ mode = "idle"
    /\ \E cfg \in InjectConfigs : config' = cfg
    /\ mode' = "workflow"
    /\ pc' = "prereq"
    /\ UNCHANGED <<idx, steps, wfSuccess, wfDeployment, launched, prerequisites, procVars>>
    /\ UNCHANGED <<dmVars, libVars>>

InitInject ==
    /\ DMInit({NoDocument}, FALSE) /\ WFIdle /\ CmdIdle /\ RptIdle /\ PeerIdle
    /\ ScanIdle /\ UiIdle
    /\ templates = NoTemplates
    /\ catalogFile = ManifestFile
    /\ request = NoRequest
    /\ validation = NoValidation
    /\ injection = NoInjection
    /\ tree = CleanTree
    /\ manifest \in InitialManifests
    /\ tmCalls = 0

NextInject ==
    \/ CatLoadTemplates
    \/ InjCallRunCompleteWorkflow
    \/ CheckPrerequisites
    \/ StageInjectTemplateManaged
    \/ StageLint
    \/ StageBuild

SpecInject == InitInject /\ [][NextInject]_vars

(* SpecUi: one runWorkflow call of the renderer's AppContext.  With        *)
(* window.electronAPI present, runPipeline invokes the main process's      *)
(* 'workflow-run-pipeline' handler, which returns runFullPipeline's        *)
(* results; the awaited invoke may also reject (the channel fails or the   *)
(* handler raises).                                                        *)

(* Bound: the runWorkflow calls, each made after the one before returned *)
MaxUiRuns == 2

(* setState(workflowStatus: 'running'); then the test of window.electronAPI *)
UiRunWorkflow ==
    /\ uiPc \in {"idle", "returned"}
    /\ uiRuns < MaxUiRuns
    /\ uiRuns' = uiRuns + 1
    /\ workflowStatus' = "running"
    /\ \E electronAPI \in BOOLEAN :
          uiPc' = IF electronAPI THEN "invoked" ELSE "returned"
    /\ UNCHANGED <<dmVars, peerVars, scanVars, wfVars, tmVars, cmdVars, rptVars>>

(* ipcMain.handle('workflow-run-pipeline'): runFullPipeline(projectPath)   *)
(* starts with its own empty results array                                 *)
UiHandlePipeline ==
    /\ uiPc = "invoked"
    /\ uiPc' = "awaiting"
    /\ mode' = "pipeline"
    /\ pc' = "step"
    /\ idx' = 1
    /\ steps' = <<>>
    /\ launched' = <<>>
    /\ UNCHANGED <<workflowStatus, uiRuns>>
    /\ UNCHANGED <<config, wfSuccess, wfDeployment, prerequisites, procVars>>
    /\ UNCHANGED <<dmVars, peerVars, scanVars, tmVars, cmdVars, rptVars>>

(* The await resumes with the handler's return value, which is dropped *)
UiPipelineSettles ==
    /\ uiPc = "awaiting"
    /\ mode = "pipeline"
    /\ pc = "done"
    /\ workflowStatus' = "success"
    /\ uiPc' = "returned"
    /\ UNCHANGED uiRuns
    /\ UNCHANGED <<dmVars, peerVars, scanVars, wfVars, tmVars, cmdVars, rptVars>>

(* The await raises without a pipeline having run: the catch block *)
UiInvokeRejects ==
    /\ uiPc = "invoked"
    /\ workflowStatus' = "error"
    /\ uiPc' = "returned"
    /\ UNCHANGED uiRuns
    /\ UNCHANGED <<dmVars, peerVars, scanVars, wfVars, tmVars, cmdVars, rptVars>>

NextUi ==
    \/ UiRunWorkflow
    \/ UiHandlePipeline
    \/ PipelineStep
    \/ UiPipelineSettles
    \/ UiInvokeRejects

SpecUi == Init /\ [][NextUi]_vars

(* Every started invoke is answered, every child process closes and every *)
(* continuation of an await is run.                                       *)
UiProgress ==
    /\ WF_vars(UiHandlePipeline \/ UiInvokeRejects)
    /\ WF_vars(PipelineStep)
    /\ WF_vars(UiPipelineSettles)

SpecUiLive == SpecUi /\ UiProgress

----------------------------------------------------------------------------
(* SpecSeq: one runFullPipeline or runCompleteWorkflow invocation with the *)
(* child processes of executeCommand made visible.  spawn() puts a child   *)
(* into alive; its 'close' (or 'error') event resolves the promise the     *)
(* caller awaits and takes it out.  awaiting names what the suspended      *)
(* caller waits for.  The collaborators' calls (template injection,        *)
(* security scan, deployment) are awaited as a whole.                      *)

Probes == {"node", "npm", "git"}

Child(name, pid) == [name |-> name, pid |-> pid]

(* await: the caller reaches its next spawn only when nothing is awaited *)
MaySpawnAlways(aw) == TRUE

MaySpawn(aw) == aw = "none"

CommandStages == {"install", "lint", "test", "build"}

StageStepName(stage) ==
    CASE stage = "install" -> "Dependency Installation"
      [] stage = "lint"    -> "Linting"
      [] stage = "test"    -> "Testing"
      [] stage = "build"   -> "Build"

(* The message of the throw that follows a failed result of the stage;    *)
(* lint has none.                                                          *)
StageFailure(stage) ==
    CASE stage = "install" -> "Dependency installation failed"
      [] stage = "test"    -> "Tests failed"
      [] stage = "build"   -> "Build failed"
      [] OTHER             -> ""

(* Promise.all([...]): the three probes are spawned in one go *)
SeqSpawnProbes ==
    /\ mode = "workflow"
    /\ pc = "prereq"
    /\ MaySpawn(awaiting)
    /\ alive' = alive \cup {Child(p, Len(launched) + 1) : p \in Probes}
    /\ awaiting' = "probes"
    /\ launched' = Append(launched, "prerequisites")
    /\ UNCHANGED <<mode, pc, config, idx, steps, wfSuccess, wfDeployment, prerequisites>>
    /\ UNCHANGED <<dmVars, libVars>>

(* One probe closes; Promise.all resolves with the last one, and then the  *)
(* gate is evaluated.                                                      *)
SeqProbeClose ==
    /\ mode = "workflow"
    /\ awaiting = "probes"
    /\ \E c \in alive, outcome \in CommandOutcomes :
          LET ok == executeCommand(outcome).success
          IN  /\ alive' = alive \ {c}
              /\ prerequisites' =
                    CASE c.name = "node" -> [prerequisites EXCEPT !.nodejs = ok]
                      [] c.name = "npm"  -> [prerequisites EXCEPT !.npm = ok]
                      [] c.name = "git"  -> [prerequisites EXCEPT !.git = ok]
              /\ IF alive' = {}
                 THEN /\ awaiting' = "none"
                      /\ IF PrerequisitesMissing(prerequisites')
                         THEN Throw("Node.js and npm are required", steps)
                         ELSE Advance(0, steps)
                 ELSE /\ awaiting' = awaiting
                      /\ UNCHANGED <<pc, idx, steps, wfSuccess>>
    /\ UNCHANGED <<mode, config, wfDeployment, launched>>
    /\ UNCHANGED <<dmVars, libVars>>

(* executeStep of an enabled command stage: spawn *)
SeqSpawnStep ==
    /\ mode = "workflow"
    /\ pc \in CommandStages
    /\ MaySpawn(awaiting)
    /\ alive' = alive \cup {Child(StageStepName(pc), Len(launched) + 1)}
    /\ awaiting' = pc
    /\ launched' = Append(launched, StageStepName(pc))
    /\ UNCHANGED <<mode, pc, config, idx, steps, wfSuccess, wfDeployment, prerequisites>>
    /\ UNCHANGED <<dmVars, libVars>>

(* The child closes: the result is pushed, then the stage's failure test *)
SeqCloseStep ==
    /\ mode = "workflow"
    /\ awaiting \in CommandStages
    /\ \E c \in alive, outcome \in CommandOutcomes :
          LET result == executeStep(StageStepName(awaiting), outcome)
          IN  /\ alive' = alive \ {c}
              /\ awaiting' = "none"
              /\ IF StageFailure(awaiting) # "" /\ Blocking(result)
                 THEN Throw(StageFailure(awaiting), Append(steps, result))
                 ELSE Advance(StageIndex(awaiting), Append(steps, result))
    /\ UNCHANGED <<mode, config, wfDeployment, launched, prerequisites>>
    /\ UNCHANGED <<dmVars, libVars>>

(* One iteration of the for loop of runFullPipeline: spawn *)
SeqSpawnPipelineStep ==
    /\ mode = "pipeline"
    /\ pc = "step"
    /\ MaySpawn(awaiting)
    /\ alive' = alive \cup {Child(PipelineSteps[idx], Len(launched) + 1)}
    /\ awaiting' = "step"
    /\ launched' = Append(launched, PipelineSteps[idx])
    /\ UNCHANGED <<mode, pc, config, idx, steps, wfSuccess, wfDeployment, prerequisites>>
    /\ UNCHANGED <<dmVars, libVars>>

(* The child closes: push, break test *)
SeqClosePipelineStep ==
    /\ mode = "pipeline"
    /\ awaiting = "step"
    /\ \E c \in alive, outcome \in CommandOutcomes :
          LET name == PipelineSteps[idx]
              result == executeStep(name, outcome)
          IN  /\ alive' = alive \ {c}
              /\ awaiting' = "none"
              /\ steps' = Append(steps, result)
              /\ IF PipelineBreaks(result, name) \/ idx = Len(PipelineSteps)
                 THEN pc' = "done" /\ idx' = idx
                 ELSE pc' = "step" /\ idx' = idx + 1
    /\ UNCHANGED <<mode, config, wfSuccess, wfDeployment, launched, prerequisites>>
    /\ UNCHANGED <<dmVars, libVars>>

NextSeq ==
    \/ CallRunFullPipeline
    \/ SeqSpawnPipelineStep
    \/ SeqClosePipelineStep
    \/ CallRunCompleteWorkflow
    \/ SeqSpawnProbes
    \/ SeqProbeClose
    \/ SeqSpawnStep
    \/ SeqCloseStep
    \/ StageInjectTemplate
    \/ StageSecurity
    \/ StageDeploy

SpecSeq == Init /\ [][NextSeq]_vars

(* SpecSeqLive: SpecSeq where every spawned child eventually emits 'close' *)
(* or 'error', every collaborator call eventually settles, and the event   *)
(* loop runs the continuation of a settled await.                          *)
ChildrenClose ==
    /\ WF_vars(SeqProbeClose)
    /\ WF_vars(SeqCloseStep)
    /\ WF_vars(SeqClosePipelineStep)

CollaboratorsSettle ==
    /\ WF_vars(StageInjectTemplate)
    /\ WF_vars(StageSecurity)
    /\ WF_vars(StageDeploy)

ContinuationsRun ==
    /\ WF_vars(SeqSpawnProbes)
    /\ WF_vars(SeqSpawnStep)
    /\ WF_vars(SeqSpawnPipelineStep)

SpecSeqLive == SpecSeq /\ ChildrenClose /\ CollaboratorsSettle /\ ContinuationsRun

----------------------------------------------------------------------------
(* SecurityScanner (unnamed/part_007) and SpecScan: scanProject calls on   *)
(* projects with any npm audit outcome and any local files, each followed  *)
(* by the orchestrator's runSecurityScan wrapping of the result.  A        *)
(* finding is represented by its severity.                                 *)

Count(vulnerabilities, severity) ==
    Len(SelectSeq(vulnerabilities, LAMBDA v : v = severity))

(* calculateSummary: the switch counts the four known severities only *)
calculateSummary(vulnerabilities) ==
    [total |-> Len(vulnerabilities),
     critical |-> Count(vulnerabilities, "critical"),
     high |-> Count(vulnerabilities, "high"),
     medium |-> Count(vulnerabilities, "medium"),
     low |-> Count(vulnerabilities, "low")]

(* runNpmAudit: the 'close' handler; audit = the severities of the entries *)
(* of the report's vulnerabilities object, parses = JSON.parse succeeds    *)
runNpmAuditAnyCode(code, parses, audit) ==
    IF parses THEN audit ELSE <<>>

runNpmAudit(code, parses, audit) ==
    IF code = "0" /\ parses THEN audit ELSE <<>>

EnvOrder == <<".env", ".env.local", ".env.development">>

(* checkCommonSecurityIssues: sensitive = the env files that exist and     *)
(* contain SECRET, PASSWORD or KEY; inspect = some script has --inspect;   *)
(* readJson of an invalid package.json raises.                             *)
checkCommonSecurityIssues(sensitive, packageJson, inspect) ==
    [raised |-> packageJson = "invalid",
     issues |-> Flatten([i \in 1..Len(EnvOrder) |->
                            IF EnvOrder[i] \in sensitive THEN <<"high">> ELSE <<>>])
                \o (IF packageJson = "valid" /\ inspect THEN <<"medium">> ELSE <<>>)]

(* SecurityScanner.scanProject *)
scannerScanProject(req) ==
    LET auditResult == runNpmAudit(req.code, req.parses, req.audit)
        commonIssues == checkCommonSecurityIssues(req.sensitive, req.packageJson,
                                                  req.inspect)
        vulnerabilities == auditResult \o commonIssues.issues
        summary == calculateSummary(vulnerabilities)
    IN  IF commonIssues.raised
        THEN [NoScanResult EXCEPT !.raised = TRUE]
        ELSE [raised |-> FALSE, vulnerabilities |-> vulnerabilities,
              summary |-> summary, passed |-> scanProject(summary).passed]

(* npm audit names its severities info, low, moderate, high, critical *)
AuditReports ==
    {<<>>, <<"low">>, <<"moderate">>, <<"medium", "low">>, <<"high">>,
     <<"low", "critical">>}

ScanRequests ==
    {r \in [code : {"0", "1"}, parses : BOOLEAN, audit : AuditReports,
            sensitive : SUBSET EnvFiles, inspect : BOOLEAN,
            packageJson : {"none", "valid", "invalid"}] :
        r.inspect => r.packageJson = "valid"}

ScanProject ==
    /\ \E req \in ScanRequests :
          LET result == scannerScanProject(req)
          IN  /\ scanRequest' = req
              /\ scanOutcome' = result
              /\ scanStep' = runSecurityScan(result.raised, result.summary)
    /\ UNCHANGED <<dmVars, peerVars, wfVars, tmVars, cmdVars, rptVars, uiVars>>

InitScan == DMInit({NoDocument}, FALSE) /\ WFIdle /\ LibIdle

NextScan == ScanProject

SpecScan == InitScan /\ [][NextScan]_vars

----------------------------------------------------------------------------
(* SpecCmd: one executeCommand call after spawn() returned the child.  The *)
(* two copies (orchestrator and deployment manager) register the same      *)
(* handlers.  Streams deliver chunks; the child emits 'close' with its     *)
(* exit code (null when killed by a signal) and may emit 'error', in       *)
(* either order.                                                           *)

MaxChunks == 2  \* chunks per stream

Chunks == {"x", " "}

ExitCodes == {"0", "1", "null"}

CloseEvent(code) == [type |-> "close", code |-> code]

ErrorEvent == [type |-> "error", code |-> "null"]

Emitted(type) == \E i \in 1..Len(cmdEvents) : cmdEvents[i].type = type

(* String.prototype.trim on the accumulated chunks *)
RECURSIVE TrimStart(_)
TrimStart(chunks) ==
    IF chunks # <<>> /\ Head(chunks) = " " THEN TrimStart(Tail(chunks)) ELSE chunks

RECURSIVE TrimEnd(_)
TrimEnd(chunks) ==
    IF chunks # <<>> /\ chunks[Len(chunks)] = " "
    THEN TrimEnd(SubSeq(chunks, 1, Len(chunks) - 1))
    ELSE chunks

Trim(chunks) == TrimEnd(TrimStart(chunks))

(* resolve(value): settles a pending promise, nothing else *)
ResolveOverwriting(promise, value) == [state |-> "resolved", value |-> value]

Resolve(promise, value) ==
    IF promise.state = "pending"
    THEN [state |-> "resolved", value |-> value]
    ELSE promise

(* process.stdout.on('data') *)
CmdStdoutData ==
    /\ ~Emitted("close")
    /\ Len(cmdOutput) < MaxChunks
    /\ \E chunk \in Chunks : cmdOutput' = Append(cmdOutput, chunk)
    /\ UNCHANGED <<cmdEvents, cmdError, cmdPromise>>
    /\ UNCHANGED <<dmVars, peerVars, scanVars, uiVars, wfVars, tmVars, rptVars>>

(* process.stderr.on('data') *)
CmdStderrData ==
    /\ ~Emitted("close")
    /\ Len(cmdError) < MaxChunks
    /\ \E chunk \in Chunks : cmdError' = Append(cmdError, chunk)
    /\ UNCHANGED <<cmdEvents, cmdOutput, cmdPromise>>
    /\ UNCHANGED <<dmVars, peerVars, scanVars, uiVars, wfVars, tmVars, rptVars>>

(* process.on('close', code) *)
CmdClose ==
    /\ ~Emitted("close")
    /\ \E code \in ExitCodes :
          /\ cmdEvents' = Append(cmdEvents, CloseEvent(code))
          /\ cmdPromise' = Resolve(cmdPromise,
                               [success |-> (code = "0"),
                                output |-> Trim(cmdOutput),
                                error |-> Trim(cmdError)])
    /\ UNCHANGED <<cmdOutput, cmdError>>
    /\ UNCHANGED <<dmVars, peerVars, scanVars, uiVars, wfVars, tmVars, rptVars>>

(* process.on('error', err) *)
CmdError ==
    /\ ~Emitted("error")
    /\ cmdEvents' = Append(cmdEvents, ErrorEvent)
    /\ cmdPromise' = Resolve(cmdPromise,
                         [success |-> FALSE, output |-> <<>>,
                          error |-> <<"err.message">>])
    /\ UNCHANGED <<cmdOutput, cmdError>>
    /\ UNCHANGED <<dmVars, peerVars, scanVars, uiVars, wfVars, tmVars, rptVars>>

InitCmd == DMInit({NoDocument}, FALSE) /\ WFIdle /\ LibIdle

NextCmd ==
    \/ CmdStdoutData
    \/ CmdStderrData
    \/ CmdClose
    \/ CmdError

SpecCmd == InitCmd /\ [][NextCmd]_vars

----------------------------------------------------------------------------
(* SpecReport: generateWorkflowReport applied to argument objects whose    *)
(* fields may be undefined.  The report is the sequence of its lines, each *)
(* a label and the text interpolated after it.                             *)

(* `${value}` *)
Interpolate(v) ==
    CASE v = "''"        -> ""
      [] v = "'install'" -> "install"
      [] v = "'lint'"    -> "lint"
      [] v = "'ok'"      -> "ok"
      [] v = "'boom'"    -> "boom"
      [] v = "'log'"     -> "log"
      [] v = "'https://site'" -> "https://site"
      [] OTHER           -> v

(* (duration / 1000).toFixed(2) *)
Seconds(duration) ==
    CASE duration = Undefined -> "NaN"
      [] duration = "0"       -> "0.00"
      [] duration = "1500"    -> "1.50"

Digits == <<"0", "1", "2">>

Line(label, value) == [label |-> label, value |-> value]

StepLines(step) ==
    <<Line("###", Interpolate(step.step)),
      Line("Status", IF Truthy(step.success) THEN "ok" ELSE "failed"),
      Line("Duration", Interpolate(step.duration) \o "ms")>>
    \o (IF Truthy(step.output) THEN <<Line("Output", Interpolate(step.output))>> ELSE <<>>)
    \o (IF Truthy(step.error) THEN <<Line("Error", Interpolate(step.error))>> ELSE <<>>)

DeploymentLines(deployment) ==
    IF deployment.present
    THEN <<Line("##", "Deployment"),
           Line("Status", IF Truthy(deployment.success) THEN "SUCCESS" ELSE "FAILED")>>
         \o (IF Truthy(deployment.url)
             THEN <<Line("URL", Interpolate(deployment.url))>> ELSE <<>>)
         \o <<Line("Log", Interpolate(deployment.log))>>
    ELSE <<>>

generateWorkflowReport(workflowResult) ==
    IF ~workflowResult.steps.defined
    THEN [raised |-> TRUE, report |-> <<>>]   \* TypeError: steps.filter
    ELSE LET list == workflowResult.steps.list
             passed == SelectSeq(list, LAMBDA s : Truthy(s.success))
         IN [raised |-> FALSE,
             report |->
                <<Line("#", "Workflow Execution Report"),
                  Line("##", "Summary"),
                  Line("Status", IF Truthy(workflowResult.success)
                                 THEN "SUCCESS" ELSE "FAILED"),
                  Line("Duration", Seconds(workflowResult.duration) \o " seconds"),
                  Line("Steps Completed",
                       Digits[Len(passed) + 1] \o "/" \o Digits[Len(list) + 1]),
                  Line("##", "Steps")>>
                \o Flatten([i \in 1..Len(list) |-> StepLines(list[i])])
                \o DeploymentLines(workflowResult.deployment)]

PassedStep == [step |-> "'install'", success |-> "true", duration |-> "10",
               output |-> "'ok'", error |-> Undefined]

FailedStep == [step |-> "'lint'", success |-> "false", duration |-> "10",
               output |-> "''", error |-> "'boom'"]

EmptyStep == [step |-> Undefined, success |-> Undefined, duration |-> Undefined,
              output |-> Undefined, error |-> Undefined]

StepLists ==
    {Absent, Given(<<>>), Given(<<PassedStep>>), Given(<<PassedStep, FailedStep>>),
     Given(<<EmptyStep>>), Given(<<PassedStep, EmptyStep>>)}

Deployments ==
    {NoDeployment} \cup
    [present : {TRUE}, success : {Undefined, "true", "false"},
     url : {Undefined, "'https://site'"}, log : {Undefined, "'log'"}]

WorkflowResults ==
    [success : {Undefined, "true", "false"},
     steps : StepLists,
     duration : {Undefined, "0", "1500"},
     deployment : Deployments]

GenerateReport ==
    /\ \E workflowResult \in WorkflowResults :
          /\ rptInput' = workflowResult
          /\ rptOutput' = generateWorkflowReport(workflowResult)
    /\ UNCHANGED <<dmVars, peerVars, scanVars, uiVars, wfVars, tmVars, cmdVars>>

InitReport == DMInit({NoDocument}, FALSE) /\ WFIdle /\ LibIdle

NextReport == GenerateReport

SpecReport == InitReport /\ [][NextReport]_vars

----------------------------------------------------------------------------
(* Properties *)

Last(s) == s[Len(s)]

InSeq(x, s) == \E i \in 1..Len(s) : s[i] = x

(* Position of a name in a sequence without repetitions, 0 when absent *)
Pos(x, s) == IF InSeq(x, s) THEN CHOOSE i \in 1..Len(s) : s[i] = x ELSE 0

(* s is a subsequence of the repetition-free sequence canon *)
IsSubsequence(s, canon) ==
    /\ \A i \in 1..Len(s) : InSeq(s[i], canon)
    /\ \A i \in 1..Len(s) : \A j \in 1..Len(s) :
          i < j => Pos(s[i], canon) < Pos(s[j], canon)

InjectionNames(cfg) ==
    [i \in 1..Len(cfg.features.injectTemplates) |->
        "Template Injection: " \o cfg.features.injectTemplates[i]]

(* The stage order of runCompleteWorkflow for a configuration *)
StageOrder(cfg) ==
    <<"prerequisites", "Dependency Installation">> \o InjectionNames(cfg) \o
    <<"Linting", "Testing", "Security Scan", "Build", "Deploy">>

StepOrder(cfg) ==
    <<"Dependency Installation">> \o InjectionNames(cfg) \o
    <<"Linting", "Testing", "Security Scan", "Build">>

NonSynthetic(ss) == SelectSeq(ss, LAMBDA r : r.step # "Workflow Execution")

StepNames(ss) == [i \in 1..Len(ss) |-> ss[i].step]

RequiredSteps == {"Dependency Installation", "Testing", "Build"}

(* C1: after any sequence of deployTo* calls, whatever loadHistory read    *)
(* from the backing document, getDeploymentHistory() never holds more than *)
(* 100 entries.                                                            *)
C1_HistoryNeverExceedsLimit == Len(getDeploymentHistory) <= HistoryLimit

(* C2: starting from an empty history, after n recorded attempts the       *)
(* history holds exactly min(n, 100) entries, most recent first: the entry *)
(* at 0-based position i is the (n-i)-th recorded attempt.                 *)
C2_RingOrder ==
    /\ Len(getDeploymentHistory) = Min(recorded, HistoryLimit)
    /\ \A i \in 1..Len(getDeploymentHistory) :
          getDeploymentHistory[i].timestamp = recorded - (i - 1)

C2_Witness ==
    /\ recorded = 150
    /\ Len(getDeploymentHistory) = 100
    /\ getDeploymentHistory[1].timestamp = 150
    /\ getDeploymentHistory[100].timestamp = 51

(* C3: every call of a deployment flow appends exactly one history entry   *)
(* carrying the returned result, whatever the outcome.                     *)
C3_EveryCallRecordsOnce ==
    [][nCalls' = nCalls + 1 =>
          /\ recorded' = recorded + 1
          /\ Len(deploymentHistory') = Min(Len(deploymentHistory) + 1, HistoryLimit)
          /\ deploymentHistory'[1].result = lastResult'
          /\ \A i \in 2..Len(deploymentHistory') :
                deploymentHistory'[i] = deploymentHistory[i - 1]]_vars

(* C4: runFullPipeline attempts the five steps in their fixed order and    *)
(* stops at the first failing step other than Security Audit: the list is  *)
(* a prefix of the order, every entry but the last (and but Security       *)
(* Audit) succeeded, and a failed Dependency Installation is the only      *)
(* entry, with Linting never launched.                                     *)
C4_PipelinePrefix ==
    mode = "pipeline" =>
        /\ Len(steps) <= Len(PipelineSteps)
        /\ StepNames(steps) = SubSeq(PipelineSteps, 1, Len(steps))
        /\ launched = StepNames(steps)
        /\ \A i \in 1..Len(steps) :
              (~steps[i].success /\ steps[i].step # "Security Audit")
                  => (i = Len(steps) /\ pc = "done")
        /\ (Len(steps) >= 1 /\ ~steps[1].success)
              => (Len(steps) = 1 /\ ~InSeq("Linting", launched))
        /\ pc = "done" =>
              \/ Len(steps) = Len(PipelineSteps)
              \/ (steps # <<>> /\ ~Last(steps).success)

C4_Witness ==
    /\ mode = "pipeline"
    /\ pc = "done"
    /\ Len(steps) = 1
    /\ steps[1].step = "Dependency Installation"
    /\ ~steps[1].success

(* C5: in runFullPipeline a failed Security Audit is recorded and Build is *)
(* still executed and recorded after it; a failure of any other step is    *)
(* the last entry of the list.                                             *)
C5_AuditAdvisory ==
    mode = "pipeline" =>
        /\ (Len(steps) >= 4 /\ ~steps[4].success) =>
              /\ steps[4].step = "Security Audit"
              /\ IF pc = "done"
                 THEN Len(steps) = 5 /\ steps[5].step = "Build"
                      /\ Last(launched) = "Build"
                 ELSE Len(steps) = 4 /\ PipelineSteps[idx] = "Build"
        /\ \A i \in 1..Len(steps) :
              (~steps[i].success /\ i # 4) => i = Len(steps)

C5_Witness ==
    /\ mode = "pipeline"
    /\ pc = "done"
    /\ Len(steps) = 5
    /\ steps[1].success /\ steps[2].success /\ steps[3].success
    /\ steps[4].step = "Security Audit" /\ ~steps[4].success
    /\ steps[5].step = "Build"

(* C6: in runCompleteWorkflow a stage is executed only if its flag is set, *)
(* the executed stages occur in the fixed relative order, and the          *)
(* non-synthetic entries of the step list are a subsequence of             *)
(* [Dependency Installation, Template Injection..., Linting, Testing,      *)
(* Security Scan, Build].                                                  *)
C6_StageOrder ==
    mode = "workflow" =>
        /\ InSeq("Dependency Installation", launched) => config.steps.install
        /\ InSeq("Linting", launched) => config.steps.lint
        /\ InSeq("Testing", launched) => config.steps.test
        /\ InSeq("Security Scan", launched) => config.steps.security
        /\ InSeq("Build", launched) => config.steps.build
        /\ InSeq("Deploy", launched) => config.steps.deploy
        /\ IsSubsequence(launched, StageOrder(config))
        /\ IsSubsequence(StepNames(NonSynthetic(steps)), StepOrder(config))
        /\ StepNames(NonSynthetic(steps)) =
              SelectSeq(launched, LAMBDA n : n \notin {"prerequisites", "Deploy"})

C6_Witness ==
    /\ mode = "workflow"
    /\ pc = "done"
    /\ launched = <<"prerequisites", "Dependency Installation",
                    "Template Injection: t1", "Template Injection: t2",
                    "Linting", "Testing", "Security Scan", "Build", "Deploy">>

(* C7: when an enabled install, test or build step fails, no later stage   *)
(* is executed, the result has success=false and its last step is the      *)
(* synthetic 'Workflow Execution' step carrying the causing message.       *)
FailureMessage(name) ==
    CASE name = "Dependency Installation" -> "Dependency installation failed"
      [] name = "Testing" -> "Tests failed"
      [] name = "Build" -> "Build failed"

C7_BlockingFailureHalts ==
    mode = "workflow" =>
        \A i \in 1..Len(steps) :
            (steps[i].step \in RequiredSteps /\ ~steps[i].success) =>
                /\ pc = "done"
                /\ ~wfSuccess
                /\ Len(steps) = i + 1
                /\ Last(steps) = SyntheticStep(FailureMessage(steps[i].step))
                /\ Last(launched) = steps[i].step
                /\ nCalls = 0

C7_Witness ==
    /\ mode = "workflow"
    /\ pc = "done"
    /\ config.steps.build /\ DeployEnabled(config)
    /\ Len(steps) >= 2
    /\ steps[Len(steps) - 1].step = "Testing"
    /\ ~steps[Len(steps) - 1].success
    /\ Last(steps).error = "Tests failed"

(* C8: lint and security-scan failures are advisory: the failed step is    *)
(* recorded and the workflow proceeds to every later enabled stage; after  *)
(* a failed scan the enabled Build stage is executed, and the workflow can *)
(* still finish with success=true.                                         *)
AdvisoryStage(name) ==
    CASE name = "Linting" -> StageIndex("lint")
      [] name = "Security Scan" -> StageIndex("security")

C8_AdvisoryFailuresContinue ==
    mode = "workflow" =>
        /\ (launched # <<>> /\ Last(launched) \in {"Linting", "Security Scan"}) =>
              /\ steps # <<>>
              /\ Last(steps).step = Last(launched)
              /\ LET next == NextStage(config, AdvisoryStage(Last(launched)))
                 IN  IF next = "finish"
                     THEN pc = "done" /\ wfSuccess
                     ELSE pc = next /\ ~wfSuccess
        /\ \A i \in 1..Len(steps) :
              (steps[i].step = "Security Scan" /\ ~steps[i].success
                 /\ config.steps.build /\ pc = "done")
                  => InSeq("Build", launched)
        /\ \A i \in 1..Len(steps) :
              (steps[i].step = "Linting" /\ ~steps[i].success
                 /\ config.steps.test /\ pc = "done")
                  => InSeq("Testing", launched)

C8_Witness ==
    /\ mode = "workflow"
    /\ pc = "done"
    /\ wfSuccess
    /\ \E i \in 1..Len(steps) : steps[i].step = "Linting" /\ ~steps[i].success
    /\ \E i \in 1..Len(steps) :
          /\ steps[i].step = "Security Scan" /\ ~steps[i].success
          /\ i < Len(steps) /\ steps[i + 1].step = "Build"

(* C9: success=true only if every executed required step succeeded and,   *)
(* when a deployment was requested, the deployment result succeeded.       *)
C9_SuccessOnlyIf ==
    (mode = "workflow" /\ wfSuccess) =>
        /\ \A i \in 1..Len(steps) :
              steps[i].step \in RequiredSteps => steps[i].success
        /\ (config.steps.deploy /\ config.deployment.autoDeploy) =>
              (wfDeployment.success /\ wfDeployment = lastResult /\ nCalls = 1)

C9_Witness ==
    /\ mode = "workflow"
    /\ wfSuccess
    /\ config.steps.deploy /\ config.deployment.autoDeploy
    /\ wfDeployment.success
    /\ \A n \in RequiredSteps : InSeq(n, StepNames(steps))

(* C10: a deployment flow is invoked only if the build step succeeded in   *)
(* this run and deployment.autoDeploy is true.                             *)
C10_DeployOnlyAfterBuild ==
    (mode = "workflow" /\ nCalls > 0) =>
        /\ config.deployment.autoDeploy
        /\ \E i \in 1..Len(steps) : steps[i].step = "Build" /\ steps[i].success

(* C11: when the deployment flow invoked by runCompleteWorkflow returns    *)
(* success=false, the result has success=false, its deployment field holds *)
(* that failed DeploymentResult, and every StepResult recorded before the  *)
(* deployment is kept unchanged.                                           *)
C11_DeployFailureKeepsSteps ==
    [][(mode = "workflow" /\ nCalls' = nCalls + 1 /\ ~lastResult'.success) =>
          /\ wfDeployment' = lastResult'
          /\ ~wfSuccess'
          /\ pc' = "done"
          /\ Len(steps') = Len(steps) + 1
          /\ SubSeq(steps', 1, Len(steps)) = steps
          /\ Last(steps') = SyntheticStep("Deployment failed")]_vars

C11_Witness ==
    /\ mode = "workflow"
    /\ pc = "done"
    /\ nCalls = 1
    /\ ~wfSuccess
    /\ wfDeployment = lastResult /\ ~wfDeployment.success
    /\ Len(steps) >= 4
    /\ steps[1].step = "Dependency Installation" /\ steps[1].success
    /\ \E i \in 1..Len(steps) : steps[i].step = "Linting" /\ ~steps[i].success
    /\ Last(steps).error = "Deployment failed"

(* C12: if the node or npm probe fails, no step, injection, scan or        *)
(* deployment is attempted and the result has success=false with exactly   *)
(* one StepResult, the synthetic one describing the missing prerequisite;  *)
(* a failing git probe alone does not fail the gate.                       *)
C12_PrerequisiteGate ==
    (mode = "workflow" /\ pc # "prereq") =>
        IF ~prerequisites.nodejs \/ ~prerequisites.npm
        THEN /\ pc = "done"
             /\ ~wfSuccess
             /\ steps = <<SyntheticStep("Node.js and npm are required")>>
             /\ launched = <<"prerequisites">>
             /\ nCalls = 0
        ELSE \A i \in 1..Len(steps) : steps[i].error # "Node.js and npm are required"

C12_Witness ==
    /\ mode = "workflow"
    /\ pc = "done"
    /\ ~prerequisites.npm /\ prerequisites.nodejs /\ prerequisites.git
    /\ config.steps.install /\ DeployEnabled(config)
    /\ Len(steps) = 1

(* C13 as stated: for every configuration whose six stage flags are all    *)
(* false the returned steps list is empty and success equals the outcome   *)
(* of the prerequisite check, in the pass and in the fail case.            *)
AllFlagsOff(cfg) ==
    /\ ~cfg.steps.install /\ ~cfg.steps.lint /\ ~cfg.steps.test
    /\ ~cfg.steps.security /\ ~cfg.steps.build /\ ~cfg.steps.deploy

C13_AllFlagsOffEmptySteps ==
    (mode = "workflow" /\ pc = "done" /\ AllFlagsOff(config)) =>
        /\ steps = <<>>
        /\ wfSuccess = (prerequisites.nodejs /\ prerequisites.npm)

(* C13 amended: with all six flags false, success equals the outcome of    *)
(* the prerequisite check; when the check passes the steps list holds only *)
(* one Template Injection entry per listed template id (it is empty when   *)
(* none is listed), and when it fails the list holds exactly the synthetic *)
(* step describing the missing prerequisite.                               *)
C13_AllFlagsOffAmended ==
    (mode = "workflow" /\ pc = "done" /\ AllFlagsOff(config)) =>
        /\ wfSuccess = (prerequisites.nodejs /\ prerequisites.npm)
        /\ IF wfSuccess
           THEN StepNames(steps) = InjectionNames(config)
           ELSE steps = <<SyntheticStep("Node.js and npm are required")>>

C13_Witness ==
    /\ mode = "workflow"
    /\ pc = "done"
    /\ AllFlagsOff(config)
    /\ config.features.injectTemplates = <<>>
    /\ prerequisites.nodejs /\ prerequisites.npm /\ ~prerequisites.git
    /\ wfSuccess
    /\ steps = <<>>

(* C14 as stated: the length of the returned steps list never exceeds the  *)
(* number of enabled stage flags plus the number of requested template     *)
(* ids, including runs that end in a failure.                              *)
StageFlags == {"install", "lint", "test", "security", "build", "deploy"}

EnabledFlagCount(cfg) == Cardinality({f \in StageFlags : cfg.steps[f]})

StepBudget(cfg) == EnabledFlagCount(cfg) + Len(cfg.features.injectTemplates)

C14_LengthBound ==
    (mode = "workflow" /\ pc = "done") => Len(steps) <= StepBudget(config)

(* C14 amended: the number of entries other than the synthetic 'Workflow   *)
(* Execution' entry never exceeds the number of enabled stage flags plus   *)
(* the number of requested template ids; a run that ends in a failure adds *)
(* exactly one synthetic entry, so the length never exceeds that number    *)
(* plus one (and does not exceed it when success=true).                    *)
C14_LengthBoundAmended ==
    mode = "workflow" =>
        /\ Len(NonSynthetic(steps)) <= StepBudget(config)
        /\ Len(steps) <= Len(NonSynthetic(steps)) + 1
        /\ wfSuccess => Len(steps) <= StepBudget(config)
        /\ (pc = "done" /\ ~wfSuccess) => Len(steps) = Len(NonSynthetic(steps)) + 1

C14_Witness ==
    /\ mode = "workflow"
    /\ pc = "done"
    /\ ~wfSuccess
    /\ EnabledFlagCount(config) = 1
    /\ config.steps.install
    /\ Len(steps) = StepBudget(config) + 1

----------------------------------------------------------------------------
(* Properties of one deployToNetlify / deployToVercel /                    *)
(* deployToGitHubPages call, read off the commands it spawned              *)
(* (lastLaunched) and the result it returned (lastResult).                 *)

ProbeCmds == {"netlify --version", "vercel --version"}

InstallCmds == {"npm install -g netlify-cli", "npm install -g vercel"}

PublishCmds == {"netlify deploy --prod --json", "vercel --prod --confirm"}

InstallFailureMessages ==
    {"Failed to install Netlify CLI", "Failed to install Vercel CLI"}

CmdIndices(cmds) == {i \in 1..Len(lastLaunched) : lastLaunched[i].cmd \in cmds}

(* C18: in deployToNetlify and deployToVercel a failed '<tool> --version'   *)
(* probe is followed by exactly one global install; if that install fails  *)
(* the call returns success=false with the install failure message as the  *)
(* end of its log and launches nothing more (no init, no publish, no       *)
(* second install); after a successful probe no install is launched.       *)
C18_BootstrapOnce ==
    (Len(lastLaunched) > 0 /\ lastLaunched[1].cmd \in ProbeCmds) =>
        /\ CmdIndices(ProbeCmds) = {1}
        /\ lastLaunched[1].ok => CmdIndices(InstallCmds) = {}
        /\ ~lastLaunched[1].ok =>
              /\ CmdIndices(InstallCmds) = {2}
              /\ ~lastLaunched[2].ok =>
                    /\ Len(lastLaunched) = 2
                    /\ ~lastResult.success
                    /\ Last(lastResult.log) \in InstallFailureMessages
                    /\ lastResult.url = Undefined

C18_Witness ==
    /\ nCalls = 2
    /\ lastLaunched = <<Cmd("vercel --version", FALSE),
                        Cmd("npm install -g vercel", FALSE)>>
    /\ ~lastResult.success
    /\ Last(lastResult.log) = "Failed to install Vercel CLI"

(* C19: in deployToNetlify a failed 'netlify init' is logged and the       *)
(* publish command is still launched right after it; in deployToNetlify    *)
(* and deployToVercel, whenever the publish command was launched, the      *)
(* returned success is the publish command's exit success, whatever the    *)
(* init outcome and whether or not a url was extracted.                    *)
C19_SuccessMirrorsPublish ==
    /\ \A i \in CmdIndices({"netlify init --force"}) :
          /\ i < Len(lastLaunched)
          /\ lastLaunched[i + 1].cmd = "netlify deploy --prod --json"
          /\ ~lastLaunched[i].ok <=> InSeq("Netlify init failed", lastResult.log)
    /\ \A i \in CmdIndices(PublishCmds) :
          /\ i = Len(lastLaunched)
          /\ lastResult.success = lastLaunched[i].ok

C19_Witness ==
    /\ Len(lastLaunched) = 3
    /\ lastLaunched[2] = Cmd("netlify init --force", FALSE)
    /\ lastLaunched[3] = Cmd("netlify deploy --prod --json", TRUE)
    /\ InSeq("Netlify init failed", lastResult.log)
    /\ lastResult.success
    /\ lastResult.url = Undefined

(* C20: in deployToGitHubPages a failed build command gives success=false  *)
(* and no url; the result carries a url only when the build command was    *)
(* launched and exited with code 0.                                        *)
C20_PagesUrlOnlyAfterBuild ==
    (nCalls > 0 /\ lastResult.log[1] = "Starting GitHub Pages deployment") =>
        /\ \A i \in 1..Len(lastLaunched) :
              (lastLaunched[i].cmd = "npm run build" /\ ~lastLaunched[i].ok) =>
                  (~lastResult.success /\ lastResult.url = Undefined)
        /\ lastResult.url # Undefined =>
              /\ lastLaunched = <<Cmd("npm run build", TRUE)>>
              /\ lastResult.success

C20_Witness ==
    /\ nCalls > 0
    /\ lastResult.log[1] = "Starting GitHub Pages deployment"
    /\ lastLaunched = <<Cmd("npm run build", FALSE)>>
    /\ ~lastResult.success
    /\ lastResult.url = Undefined

----------------------------------------------------------------------------
(* Properties of runCompleteWorkflow's error boundary *)

Continued(k) ==
    LET next == NextStage(config, k)
    IN  IF next = "finish" THEN pc = "done" /\ wfSuccess ELSE pc = next /\ ~wfSuccess

(* C16: an exception of scanProject or of the template manager's           *)
(* injectTemplate does not reach the catch block of runCompleteWorkflow:   *)
(* it becomes a failed step named 'Security Scan' or 'Template Injection:  *)
(* <id>' with empty output and the exception's message as error, never a   *)
(* 'Workflow Execution' step, and right after it the workflow stands at    *)
(* the next template, at the next enabled stage, or has finished with      *)
(* success=true.                                                           *)
C16_CollaboratorErrorsContained ==
    mode = "workflow" =>
        /\ \A i \in 1..Len(steps) :
              steps[i].error = "error.message" =>
                  /\ \/ steps[i].step = "Security Scan"
                     \/ InSeq(steps[i].step, InjectionNames(config))
                  /\ ~steps[i].success
                  /\ steps[i].output = ""
        /\ (steps # <<>> /\ Last(steps).error = "error.message"
              /\ Last(launched) = Last(steps).step) =>
              IF Last(steps).step = "Security Scan"
              THEN Continued(StageIndex("security"))
              ELSE \/ /\ pc = "templates"
                      /\ idx \in 2..Len(config.features.injectTemplates)
                      /\ ~wfSuccess
                   \/ Continued(StageIndex("templates"))

C16_Witness ==
    /\ mode = "workflow"
    /\ pc = "done"
    /\ wfSuccess
    /\ \E i \in 1..Len(steps) :
          /\ InSeq(steps[i].step, InjectionNames(config))
          /\ steps[i].error = "error.message"
          /\ i < Len(steps)
    /\ \E i \in 1..Len(steps) :
          /\ steps[i].step = "Security Scan" /\ steps[i].error = "error.message"
          /\ i < Len(steps) /\ steps[i + 1].step = "Build"

(* C17: when the deploy stage is reached with a target other than netlify, *)
(* vercel and github-pages, the dispatcher raises: no deployment flow runs *)
(* (no deployTo* call, no command, no history entry), no deployment result *)
(* is stored, and the raise arrives in the catch block as 'Unsupported     *)
(* deployment target: <target>'.                                           *)
C17_UnsupportedTargetRaises ==
    (mode = "workflow" /\ InSeq("Deploy", launched)
       /\ config.deployment.target \notin SupportedTargets) =>
        /\ nCalls = 0
        /\ lastLaunched = <<>>
        /\ deploymentHistory = <<>>
        /\ wfDeployment = NoResult
        /\ pc = "done"
        /\ ~wfSuccess
        /\ Last(steps) =
              SyntheticStep("Unsupported deployment target: " \o config.deployment.target)

C17_Witness ==
    /\ mode = "workflow"
    /\ config.deployment.target = "none"
    /\ InSeq("Build", launched)
    /\ Last(launched) = "Deploy"
    /\ Last(steps).error = "Unsupported deployment target: none"

----------------------------------------------------------------------------
(* Properties of the sequencing of child processes (SpecSeq) *)

StepChildren == {c \in alive : c.name \notin Probes}

ProbeChildren == {c \in alive : c.name \in Probes}

(* The steps attempted so far, in launch order *)
Attempted == SelectSeq(launched, LAMBDA n : n \notin {"prerequisites", "Deploy"})

(* C15: within one invocation at most one step's child process is alive,   *)
(* and it is the child of the step launched last; nothing is launched      *)
(* twice; the results in the list are, in the same order, the steps        *)
(* attempted so far, the one still running excepted; only the three        *)
(* prerequisite probes are alive together, and while one of them is alive  *)
(* no step has been launched or recorded.                                  *)
C15_StrictlySequential ==
    /\ Cardinality(StepChildren) <= 1
    /\ \A c \in StepChildren : c.pid = Len(launched) /\ c.name = Last(launched)
    /\ \A i \in 1..Len(launched) : \A j \in 1..Len(launched) :
          i # j => launched[i] # launched[j]
    /\ Len(Attempted) = Len(NonSynthetic(steps)) + Cardinality(StepChildren)
    /\ SubSeq(Attempted, 1, Len(NonSynthetic(steps))) = StepNames(NonSynthetic(steps))
    /\ ProbeChildren # {} =>
          /\ StepChildren = {}
          /\ awaiting = "probes"
          /\ launched = <<"prerequisites">>
          /\ steps = <<>>
    /\ (mode = "workflow" /\ Len(launched) > 1) =>
          (launched[1] = "prerequisites" /\ ProbeChildren = {})

C15_Witness ==
    /\ mode = "workflow"
    /\ alive = {Child("Build", Len(launched))}
    /\ awaiting = "build"
    /\ Len(steps) = 5
    /\ StepNames(steps) = SubSeq(Attempted, 1, 5)
    /\ ~prerequisites.git

----------------------------------------------------------------------------
(* Properties of TemplateManager.injectTemplate (SpecTM).  A step with     *)
(* Injected is one call: the unprimed tree, manifest and catalog are what  *)
(* the call found, request' its arguments, injection' what it returned.    *)

Injected == tmCalls' = tmCalls + 1

Declared(templateId) == Catalog[templateId].variables

(* Declared required variables that the supplied map does not have *)
MissingRequired(req) ==
    {Declared(req.templateId)[i].name :
        i \in {j \in 1..Len(Declared(req.templateId)) :
                  /\ Declared(req.templateId)[j].required
                  /\ req.variables[Declared(req.templateId)[j].name] = Undefined}}

MessagesNaming(errors, name) ==
    {i \in 1..Len(errors) :
        errors[i] \in {"Required variable missing: " \o name,
                       "Invalid value for " \o name}}

(* C21: a call for a template of the catalog with a required variable      *)
(* absent from the supplied map returns success=false, no injected file,   *)
(* no installed dependency and exactly one message naming the variable     *)
(* ('Required variable missing: <name>'), and leaves the target tree and   *)
(* the target package.json as they were.                                   *)
C21_MissingRequiredAborts ==
    [][(Injected /\ request'.templateId \in templates.ids
          /\ MissingRequired(request') # {}) =>
         /\ ~injection'.success
         /\ injection'.injectedFiles = <<>>
         /\ injection'.installedDependencies = <<>>
         /\ \A name \in MissingRequired(request') :
               /\ Cardinality(MessagesNaming(injection'.errors, name)) = 1
               /\ Includes(injection'.errors, "Required variable missing: " \o name)
         /\ tree' = tree
         /\ manifest' = manifest]_vars

C21_Witness ==
    /\ tmCalls = 1
    /\ request.templateId = "t2"
    /\ request.variables["name"] = "'a'"
    /\ request.variables["flag"] = Undefined
    /\ request.sources = {"c.tpl"}
    /\ injection.errors = <<"Required variable missing: flag">>
    /\ tree = CleanTree

(* What the contract of validateVariables asks for: a required variable    *)
(* that is absent or the empty string, and a supplied value of a select    *)
(* variable that is not among its options.                                 *)
AbsentOrEmpty(v) == v \in {Undefined, "''"}

ContractViolations(template, variables) ==
    LET check(v) ==
            (IF v.required /\ AbsentOrEmpty(variables[v.name])
             THEN <<"Required variable missing: " \o v.name>> ELSE <<>>)
            \o
            (IF v.type = "select" /\ variables[v.name] # Undefined
                  /\ ~Includes(v.options.list, variables[v.name])
             THEN <<"Invalid value for " \o v.name>> ELSE <<>>)
    IN  Flatten([i \in 1..Len(template.variables) |-> check(template.variables[i])])

(* C22: validateVariables reports exactly the required variables that are  *)
(* absent or empty and the select variables whose supplied value is not    *)
(* among the options; 0 and false are not reported as missing; a template  *)
(* without declared variables always validates.                            *)
C22_ValidationExact ==
    [][(Injected /\ request'.templateId \in templates.ids) =>
         /\ validation'.errors =
               ContractViolations(Catalog[request'.templateId], request'.variables)
         /\ validation'.valid = (validation'.errors = <<>>)]_vars

(* C23: a call with an id that is not in the map returns success=false,    *)
(* the single error 'Template not found: <id>', no injected file and no    *)
(* installed dependency; no validation takes place and the target tree     *)
(* and package.json are left as they were.                                 *)
C23_UnknownTemplate ==
    [][(Injected /\ request'.templateId \notin templates.ids) =>
         /\ injection' =
               [success |-> FALSE, injectedFiles |-> <<>>,
                installedDependencies |-> <<>>,
                errors |-> <<"Template not found: " \o request'.templateId>>]
         /\ validation' = NoValidation
         /\ tree' = tree
         /\ manifest' = manifest]_vars

C23_Witness ==
    /\ tmCalls = 2
    /\ templates.ids = CatalogIds
    /\ request.templateId = "unknown"
    /\ injection.errors = <<"Template not found: unknown">>
    /\ ~injection.success
    /\ tree = CleanTree

(* The declared entries of a call with their resolved target paths *)
FilesOf(req) == Catalog[req.templateId].files

ResolvedTarget(req, i) == resolvePath(FilesOf(req)[i].target, req.variables)

SourceMissing(req, i) ==
    FilesOf(req)[i].type = "file" /\ FilesOf(req)[i].source \notin req.sources

(* Entry i is of kind file, its source exists and nothing but a file is in *)
(* the way at its target                                                   *)
Writable(req, i, tr) ==
    /\ FilesOf(req)[i].type = "file"
    /\ FilesOf(req)[i].source \in req.sources
    /\ KindAt(tr, ResolvedTarget(req, i)) # "dir"

StrictlyIncreasing(f) == \A i \in DOMAIN f : \A j \in DOMAIN f : i < j => f[i] < f[j]

(* C24: once validation has passed, each declared file whose source is     *)
(* missing adds exactly one 'Failed to inject file' error and no path; the *)
(* other entries are still processed: injectedFiles lists, in declaration  *)
(* order, resolved targets of entries that are not missing, among them     *)
(* every writable file; the dependency merge still runs (with an existing, *)
(* readable and writable package.json every declared dependency is in it   *)
(* afterwards); and success=false if any source was missing.               *)
C24_BestEffortPerFile ==
    [][(Injected /\ request'.templateId \in templates.ids /\ validation'.valid
          /\ Catalog[request'.templateId].dependencies.defined) =>
         LET req == request'
             n == Len(FilesOf(req))
             inj == injection'.injectedFiles
             deps == Catalog[req.templateId].dependencies.list
         IN  /\ \A i \in 1..n :
                   SourceMissing(req, i) =>
                     /\ Cardinality({k \in 1..Len(injection'.errors) :
                           injection'.errors[k] =
                              "Failed to inject file: " \o FilesOf(req)[i].source}) = 1
                     /\ ~injection'.success
             /\ \E f \in [1..Len(inj) -> 1..n] :
                   /\ StrictlyIncreasing(f)
                   /\ \A k \in 1..Len(inj) :
                         inj[k] = ResolvedTarget(req, f[k]) /\ ~SourceMissing(req, f[k])
                   /\ \A i \in 1..n :
                         Writable(req, i, tree) => \E k \in 1..Len(inj) : f[k] = i
             /\ (manifest.exists /\ manifest.valid /\ req.writeOk) =>
                   \A k \in 1..Len(deps) : manifest'.dependencies[deps[k]] # Undefined]_vars

C24_Witness ==
    /\ tmCalls = 1
    /\ request.templateId = "t1"
    /\ request.sources = {"b.tpl"}
    /\ injection.injectedFiles = <<"b">>
    /\ injection.errors = <<"Failed to inject file: a.tpl">>
    /\ injection.installedDependencies = <<"lodash">>
    /\ manifest.dependencies["lodash"] = "'latest'"
    /\ ~injection.success
    /\ tree["a"] = "none" /\ tree["b"] = "file"

DeclaredDependencies(req) ==
    IF req.templateId \in CatalogIds
    THEN {Catalog[req.templateId].dependencies.list[i] :
             i \in 1..Len(Catalog[req.templateId].dependencies.list)}
    ELSE {}

(* C25: the dependency merge only adds names: a name that the manifest     *)
(* already has keeps its version, no entry is removed, every declared name *)
(* that the manifest lacks is added, and installedDependencies is exactly  *)
(* the names this call added to the manifest.                              *)
C25_MergeOnlyAdds ==
    [][(Injected /\ manifest.exists /\ manifest.valid) =>
         /\ \A d \in DepNames :
               manifest.dependencies[d] # Undefined =>
                  manifest'.dependencies[d] = manifest.dependencies[d]
         /\ (injection'.success \/ injection'.installedDependencies # <<>>) =>
               \A d \in DeclaredDependencies(request') :
                  manifest'.dependencies[d] # Undefined
         /\ {injection'.installedDependencies[i] :
                i \in 1..Len(injection'.installedDependencies)}
               = {d \in DepNames : /\ manifest.dependencies[d] = Undefined
                                   /\ manifest'.dependencies[d] # Undefined}]_vars

(* C26: a call that repeats the arguments of a call that found its         *)
(* template and passed validation, the first of them on a clean target,    *)
(* returns the same injectedFiles and leaves the target tree as the call   *)
(* before left it.                                                         *)
C26_Idempotent ==
    [][(Injected /\ tmCalls >= 1 /\ request' = request
          /\ request.templateId \in CatalogIds
          /\ validation.valid
          /\ injection.errors # <<"Template not found: " \o request.templateId>>) =>
         /\ injection'.injectedFiles = injection.injectedFiles
         /\ tree' = tree]_vars

C26_Witness ==
    /\ tmCalls = 2
    /\ request.templateId = "t2"
    /\ request.variables["name"] = "'a'"
    /\ request.variables["flag"] = "true"
    /\ request.sources = {"c.tpl"}
    /\ injection.injectedFiles = <<"a">>
    /\ injection.errors = <<"Failed to inject file: c.tpl">>
    /\ tree["a"] = "dir"

(* C27: every InjectionResult that injectTemplate returned has             *)
(* success=true exactly when its errors list is empty, a raising install   *)
(* script included.                                                        *)
C27_SuccessIffNoErrors ==
    tmCalls > 0 => (injection.success <=> injection.errors = <<>>)

C27_Witness ==
    /\ tmCalls = 1
    /\ request.templateId = "t1"
    /\ request.scriptThrows
    /\ injection.success
    /\ injection.errors = <<>>
    /\ injection.injectedFiles = <<"a", "b">>

----------------------------------------------------------------------------
(* Properties of the template stage of runCompleteWorkflow *)

BlockingMessages ==
    {"Node.js and npm are required", "Dependency installation failed",
     "Tests failed", "Build failed", "Deployment failed",
     "Unsupported deployment target: none"}

(* The workflow has left the template stage without a raise before it *)
TemplatesDone ==
    /\ mode = "workflow"
    /\ \/ pc \in {"lint", "test", "security", "build", "deploy"}
       \/ pc = "done" /\ wfSuccess
       \/ \E i \in 1..Len(launched) :
             launched[i] \in {"Linting", "Testing", "Security Scan", "Build", "Deploy"}

(* C28: every iteration of the template loop appends one step named        *)
(* 'Template Injection: <id>' for the id at the loop position; when the    *)
(* manager returned a result, the step's success is the result's success   *)
(* and its error the result's errors joined by ', '; the iteration never   *)
(* ends the workflow with a failure.  Once the stage is over, the          *)
(* injection steps are the listed ids, once each, in list order, and a     *)
(* workflow that failed ends with a synthetic step of a blocking stage.    *)
C28_InjectionSteps ==
    [][/\ (mode = "workflow" /\ pc = "templates" /\ Len(launched') = Len(launched) + 1) =>
            /\ steps' = Append(steps, Last(steps'))
            /\ Last(steps').step =
                  "Template Injection: " \o config.features.injectTemplates[idx]
            /\ injection' # NoInjection =>
                  /\ Last(steps').success = injection'.success
                  /\ Last(steps').error = Join(injection'.errors)
            /\ injection' = NoInjection => ~Last(steps').success
            /\ pc' = "done" => wfSuccess'
       /\ TemplatesDone' =>
            SelectSeq(StepNames(steps'), LAMBDA n : InSeq(n, InjectionNames(config')))
               = InjectionNames(config')
       /\ (mode' = "workflow" /\ pc' = "done" /\ ~wfSuccess') =>
            /\ Last(steps').step = "Workflow Execution"
            /\ Last(steps').error \in BlockingMessages]_vars

C28_Witness ==
    /\ mode = "workflow"
    /\ pc = "done"
    /\ wfSuccess
    /\ config.features.injectTemplates = <<"t1", "t2">>
    /\ Len(steps) >= 3
    /\ steps[1] = [step |-> "Template Injection: t1", success |-> FALSE,
                   output |-> "Injected files: b",
                   error |-> "Failed to inject file: a.tpl, Failed to install dependencies"]
    /\ steps[2].step = "Template Injection: t2" /\ steps[2].success
    /\ injection.success

(* C37: the orchestrator calls the manager with an empty variable map, so *)
(* the injection of a listed template that the manager knows and that      *)
(* declares a required variable yields a 'Template Injection: <id>' step   *)
(* with success=false whose error is the joined 'Required variable         *)
(* missing: <name>' messages; nothing is written to the project            *)
(* directory or its package.json, and the step does not end the workflow   *)
(* with a failure.                                                         *)
RequiredOf(templateId) ==
    SelectSeq(Catalog[templateId].variables, LAMBDA v : v.required)

C37_EmptyVariablesRejected ==
    [][(mode = "workflow" /\ pc = "templates" /\ tmCalls' = tmCalls + 1) =>
          LET templateId == config.features.injectTemplates[idx]
          IN  /\ request'.templateId = templateId
              /\ \A n \in VarNames : request'.variables[n] = Undefined
              /\ (templateId \in templates.ids /\ RequiredOf(templateId) # <<>>) =>
                    /\ steps' = Append(steps, Last(steps'))
                    /\ Last(steps').step = "Template Injection: " \o templateId
                    /\ ~Last(steps').success
                    /\ Last(steps').output = "Injected files: "
                    /\ Last(steps').error =
                          Join([i \in 1..Len(RequiredOf(templateId)) |->
                                  "Required variable missing: "
                                     \o RequiredOf(templateId)[i].name])
                    /\ injection'.injectedFiles = <<>>
                    /\ tree' = tree
                    /\ manifest' = manifest
                    /\ pc' = "done" => wfSuccess'
                    /\ pc' # "done" => pc' \in {"templates", "lint", "build"}]_vars

C37_Witness ==
    /\ mode = "workflow"
    /\ pc = "done"
    /\ wfSuccess
    /\ templates.loaded
    /\ config.features.injectTemplates = <<"t1", "t3">>
    /\ Len(steps) = 3
    /\ steps[1] = [step |-> "Template Injection: t1", success |-> FALSE,
                   output |-> "Injected files: ",
                   error |-> "Required variable missing: name"]
    /\ steps[2].step = "Template Injection: t3"
    /\ injection.injectedFiles # <<>>
    /\ steps[3].step = "Build" /\ steps[3].success
    /\ tree # CleanTree

(* C38: a runCompleteWorkflow run with steps.deploy, autoDeploy and target *)
(* 'none' never returns success.  When nothing before the deploy stage     *)
(* raised (the prerequisites are present and every step pushed succeeded,  *)
(* or only non-blocking steps failed), the result ends with the synthetic  *)
(* 'Workflow Execution' step carrying 'Unsupported deployment target:      *)
(* none'; the deployment field stays unset, no deployTo* call is made and  *)
(* no history entry is recorded or written.                                *)
AutoDeployToNone ==
    /\ mode = "workflow"
    /\ config.steps.deploy
    /\ config.deployment.autoDeploy
    /\ config.deployment.target = "none"

EveryExecutedStepSucceeded ==
    /\ ~PrerequisitesMissing(prerequisites)
    /\ \A i \in 1..(Len(steps) - 1) : steps[i].success

C38_TargetNoneFailsRun ==
    (AutoDeployToNone /\ pc = "done") =>
        /\ ~wfSuccess
        /\ Last(steps).step = "Workflow Execution"
        /\ ~Last(steps).success
        /\ wfDeployment = NoResult
        /\ nCalls = 0 /\ recorded = 0
        /\ deploymentHistory = <<>> /\ written = {} /\ document = NoDocument
        /\ EveryExecutedStepSucceeded => InSeq("Deploy", launched)
        /\ InSeq("Deploy", launched) =>
              Last(steps) = SyntheticStep("Unsupported deployment target: none")

C38_Witness ==
    /\ AutoDeployToNone /\ pc = "done"
    /\ config.steps.install /\ config.steps.test /\ config.steps.build
    /\ EveryExecutedStepSucceeded
    /\ Len(steps) >= 4
    /\ steps[Len(steps) - 1].step = "Build"
    /\ Last(steps) = SyntheticStep("Unsupported deployment target: none")

----------------------------------------------------------------------------
(* Properties of the renderer's AppContext (SpecUiLive) *)

Settled == workflowStatus \in {"success", "error"}

PipelineSucceeded == \A i \in 1..Len(steps) : steps[i].success

(* C40: after runWorkflow, workflowStatus is 'running' and leads to        *)
(* 'success' or 'error'; it is not 'running' once runWorkflow has          *)
(* returned; it is 'success' only if every step of the returned pipeline   *)
(* succeeded.                                                              *)
C40_StatusFollowsPipeline ==
    /\ [](uiPc = "returned" => Settled)
    /\ []((workflowStatus = "success" /\ uiPc = "returned") => PipelineSucceeded)
    /\ (workflowStatus = "running") ~> Settled

----------------------------------------------------------------------------
(* Properties of executeCommand (SpecCmd) *)

----------------------------------------------------------------------------
(* Properties of generateWorkflowReport (SpecReport) *)

RequiredMissing(workflowResult) ==
    \/ workflowResult.success = Undefined
    \/ workflowResult.duration = Undefined
    \/ ~workflowResult.steps.defined
    \/ \E i \in 1..Len(workflowResult.steps.list) :
          LET step == workflowResult.steps.list[i]
          IN Undefined \in {step.step, step.success, step.duration}
    \/ /\ workflowResult.deployment.present
       /\ Undefined \in {workflowResult.deployment.success,
                         workflowResult.deployment.log}

BlankOrUndefined(value) == value \in {"", "undefined", "undefinedms", "NaN seconds"}

(* C30: a call of generateWorkflowReport whose argument lacks a required   *)
(* field (steps, duration, success, a step's name, status or duration, the *)
(* log or success of a present deployment) raises instead of returning a   *)
(* report, and no returned report has a line whose value is blank,         *)
(* 'undefined' or NaN.                                                     *)
C30_MalformedRejected ==
    rptOutput # NoReport =>
        /\ RequiredMissing(rptInput) => rptOutput.raised
        /\ \A i \in 1..Len(rptOutput.report) :
              ~BlankOrUndefined(rptOutput.report[i].value)

----------------------------------------------------------------------------
(* Termination (SpecSeqLive) *)

Running == mode # "idle" /\ pc # "done"

Returned == mode # "idle" /\ pc = "done"

(* C31: when every child closes and every collaborator call settles, an    *)
(* invocation of runFullPipeline / runCompleteWorkflow eventually returns; *)
(* and nothing but the events of the awaited children moves an invocation  *)
(* that is suspended on a child: until the last awaited child has closed   *)
(* the invocation stays running at the same position, no step result is    *)
(* added and no later step is launched.                                    *)
C31_TerminatesUnlessChildHangs ==
    /\ Running ~> Returned
    /\ [][awaiting # "none" /\ alive' # {} =>
            /\ Running' /\ pc' = pc /\ idx' = idx
            /\ steps' = steps /\ launched' = launched]_vars

C31_Witness ==
    /\ Returned
    /\ mode = "workflow"
    /\ wfSuccess
    /\ Len(launched) >= 4
    /\ alive = {}

----------------------------------------------------------------------------
(* Two instances over one history file (SpecTwo) *)

Timestamps(hist) == {hist[i].timestamp : i \in 1..Len(hist)}

(* C32: a record that reaches the file replaces the whole document by the  *)
(* in-memory list of the instance that records, whatever the document held *)
(* (nothing of the document's content is merged in).  With two instances   *)
(* an entry that one of them wrote can therefore be missing from the       *)
(* document after the other one records (C32_Witness).                     *)
C32_FullRewrite ==
    [][/\ (nCalls' = nCalls + 1 /\ written' # written) =>
              document' = [exists |-> TRUE, valid |-> TRUE,
                           history |-> deploymentHistory']
       /\ (peerCalls' = peerCalls + 1 /\ written' # written) =>
              document' = [exists |-> TRUE, valid |-> TRUE,
                           history |-> peerHistory']]_vars

C32_Witness ==
    /\ peerCalls = 1
    /\ document.history = peerHistory
    /\ Len(document.history) < HistoryLimit
    /\ \E ts \in written :
          /\ ts \in Timestamps(deploymentHistory)
          /\ ts \notin Timestamps(document.history)

----------------------------------------------------------------------------
(* Shape of the DeploymentResult (SpecDM) *)

(* C33: the DeploymentResult returned by a deployToNetlify, deployToVercel *)
(* or deployToGitHubPages call carries a completion timestamp, whichever   *)
(* path the call took.                                                     *)
C33_ResultHasTimestamp ==
    nCalls > 0 => lastResult.timestamp # Undefined

----------------------------------------------------------------------------
(* Security scan (SpecScan) *)

Scanned == scanStep # NoStep /\ ~scanOutcome.raised

(* C34: when scanProject returns, the 'Security Scan' step succeeds        *)
(* exactly when no finding of the scan is critical or high (medium, low    *)
(* and other findings do not fail it), and its error text is empty exactly *)
(* when it succeeds.                                                       *)
C34_PassIffNoCriticalOrHigh ==
    Scanned =>
        /\ scanStep.step = "Security Scan"
        /\ scanStep.success <=>
              \A i \in 1..Len(scanOutcome.vulnerabilities) :
                  scanOutcome.vulnerabilities[i] \notin {"critical", "high"}
        /\ scanStep.success <=>
              (scanOutcome.summary.critical = 0 /\ scanOutcome.summary.high = 0)
        /\ scanStep.error = "" <=> scanStep.success

C34_Witness ==
    /\ Scanned
    /\ scanStep.success
    /\ scanOutcome.summary.medium = 2
    /\ scanOutcome.summary.low = 1

LocalFindings(req) ==
    Cardinality(req.sensitive) + (IF req.inspect THEN 1 ELSE 0)

(* C39: the findings of the npm audit report are part of the scan result   *)
(* only when the audit process closed with exit code 0 (and its output     *)
(* parsed); after a non-zero exit code the result holds the local findings *)
(* alone, one high finding per sensitive env file and one medium finding   *)
(* for an --inspect script, and passed depends on the env files only.      *)
C39_AuditOnlyOnExitZero ==
    Scanned =>
        /\ (scanRequest.code = "0" /\ scanRequest.parses) =>
              /\ scanOutcome.summary.total =
                    Len(scanRequest.audit) + LocalFindings(scanRequest)
              /\ SubSeq(scanOutcome.vulnerabilities, 1, Len(scanRequest.audit))
                    = scanRequest.audit
        /\ scanRequest.code # "0" =>
              /\ scanOutcome.summary.total = LocalFindings(scanRequest)
              /\ scanOutcome.summary.high = Cardinality(scanRequest.sensitive)
              /\ scanOutcome.summary.critical = 0
              /\ scanOutcome.passed <=> scanRequest.sensitive = {}

C39_Witness ==
    /\ Scanned
    /\ scanRequest.code = "1"
    /\ scanRequest.parses
    /\ scanRequest.audit = <<"low", "critical">>
    /\ scanOutcome.vulnerabilities = <<>>
    /\ scanOutcome.passed

----------------------------------------------------------------------------
(* Retention of history entries (SpecDM) *)

(* C35: no entry is lost before eviction.  Every entry recorded so far is  *)
(* in getDeploymentHistory() (fewer than 100 entries have been recorded    *)
(* after it); no step removes an entry from the in-memory list unless the  *)
(* list is full; and the first step after construction does not leave an   *)
(* entry of the backing document in neither the list nor the document.     *)
C35_NoEntryLost ==
    /\ [](\A ts \in 1..recorded : ts \in Timestamps(getDeploymentHistory))
    /\ [][\/ Timestamps(deploymentHistory) \subseteq Timestamps(deploymentHistory')
          \/ Len(deploymentHistory') = HistoryLimit]_vars
    /\ [][(loadPending /\ recorded = 0 /\ document.exists /\ document.valid) =>
             \/ Len(deploymentHistory') = HistoryLimit
             \/ \A ts \in Timestamps(document.history) :
                   \/ ts \in Timestamps(deploymentHistory')
                   \/ ts \in Timestamps(document'.history)]_vars

----------------------------------------------------------------------------
(* The catalog under the un-awaited load (SpecCatalog) *)

(* C36: an injectTemplate call for a template that templates.json lists    *)
(* does not answer 'Template not found', whenever it arrives after the     *)
(* constructor returned; and an entry that createTemplate put into the map *)
(* is never replaced by the version of templates.json.                     *)
C36_CatalogStable ==
    /\ [][(Injected /\ catalogFile.valid /\ request'.templateId \in catalogFile.ids) =>
             injection' # TemplateNotFound(request'.templateId)]_vars
    /\ [][templates.created \subseteq templates'.created]_vars

============================================================================
